---------------------------- MODULE Spec2Model ----------------------------
(***************************************************************************)
(* A model of spooty's library pipeline (src/src/spooty/utils/             *)
(* spotify_helpers.py): the page-following loops of get_playlists and      *)
(* get_liked_songs, the normalizer loop of pull_tracks with its            *)
(* AdaptiveRateLimiter, the chunked worker pool of pull_artist_and_genre,  *)
(* the join of process_library_data and the add loop of                    *)
(* sync_playlist_with_liked_songs; with them the client mutations,         *)
(* st.cache_data, utils/logging_setup.py and the page script               *)
(* pages/1_Backlog_Sampler.py.                                             *)
(*                                                                         *)
(* Conventions.  A JSON field is a record [st, v]: st = "absent" (the key  *)
(* is not in the dict), "null" (the key maps to None) or "value".  Ids and *)
(* names are positive integers.  Durations are integers in milliseconds;   *)
(* a product with 0.9 or 1.5 is rounded down to the millisecond.           *)
(***************************************************************************)
EXTENDS Integers, Sequences, FiniteSets, TLC

VARIABLES
    \* ---- the caller and the remote paged listing
    op,                 \* the public operation under way
    listing,            \* remote: the pages of the listing, each a sequence of items
    failAt,             \* remote: the page whose fetch raises (0: none)
    user_filter, collaborative_filter, name_prefix,   \* get_playlists' arguments
    \* ---- get_playlists / get_liked_songs
    pg_pc,              \* position in the page-following loop
    page,               \* index of the page held in `playlists` / `results` (0: None)
    all_playlists,      \* get_playlists: all_playlists
    all_tracks,         \* get_liked_songs: all_tracks
    processed,          \* get_playlists: processed
    plog,               \* remote calls and sleeps of the loop, in order
    pg_result,          \* the returned table (a sequence of rows)
    error,              \* the exception that left the operation ("" : none)
    \* ---- pull_tracks and its AdaptiveRateLimiter
    playlist_df,        \* pull_tracks' argument: the playlist rows
    trackResp,          \* remote: playlist id -> the answer of playlist_tracks
    pt_pc,              \* position in pull_tracks
    pt_i,               \* the loop index i (0-based: playlists done so far)
    tracks_dfs,         \* the per-playlist track tables
    skipped_playlists,  \* (name, id, reason) of every skipped playlist
    rate_limiter,       \* the AdaptiveRateLimiter object
    total_tracks,
    tlog,               \* remote calls, limiter updates and delays, in order
    pt_result,          \* the returned track table
    updates,            \* number of update() calls made on a lone limiter
    \* ---- pull_artist_and_genre
    tracks_arg,         \* pull_artist_and_genre's argument: the track table
    artistDefect,       \* remote: artist id -> the defect of its record, if any
    chunkResp,          \* remote: the fate of the k-th get-artists request
    pa_pc,              \* position of the main thread in pull_artist_and_genre
    unique_artist_ids,
    max_workers,
    futures,            \* the submitted batches: state and result of each
    processed_artists_data,
    alog,               \* the id lists passed to _sp.artists, in call order
    pa_result,          \* the returned artist table
    \* ---- process_library_data
    pl_pc,              \* position in process_library_data
    tracks_df,
    combined_df,        \* the returned table
    run,                \* 1: the first call; 2: a second call, its cache entry gone
    first_call,         \* outcome, rows and artist table of the first call
    \* ---- sync_playlist_with_liked_songs
    source,             \* remote: the source playlist (fetch fails?, its track ids)
    dest,               \* the destination arguments and user_id
    dest_tracks,        \* remote: the track ids of the destination playlist
    addFailAt,          \* remote: the add-call that raises (0: none)
    sy_pc,              \* position in sync_playlist_with_liked_songs
    source_tracks,
    liked_track_ids,
    tracks_to_add,
    destination_playlist_id,
    sy_i,               \* turns of the add loop made so far
    mutations,          \* the create-playlist and add-items calls, in order
    sy_result,
    sy_error,           \* the exception that left the sync ("" : none)
    sy_run,             \* 1: the first sync; 2: a second one, after the first returned
    dest_at_call,       \* remote: the destination's tracks when the sync was called
    \* ---- the client handle; set_playlist_public_status, create_sample_playlist
    sp_handle,          \* _sp: "valid", "none" (None) or "expired"
    mu_arg,             \* the arguments of the operation and the remote's answers
    mu_pc,              \* position in the operation
    response,           \* set_playlist_public_status: response.status_code (0: none)
    remote_calls,       \* the remote calls issued, in order
    toast,              \* the message shown ("" : none)
    mu_result,          \* the returned value ("" : nothing returned yet)
    mu_error,           \* the exception that left the operation ("" : none)
    \* ---- st.cache_data
    cache,              \* key -> the stored result and the time it was computed
    now,                \* the clock, in seconds
    ncalls,             \* calls of cached functions made so far
    last,               \* the last call: function, caller, arguments, time, result
    \* ---- logging_setup
    logging_initialized,    \* the module's flag _logging_initialized
    log_dir,            \* the directory "logs": "missing", "exists" or "blocked"
    conf_ok,            \* logging.config.fileConfig('logging.conf') succeeds
    log_config,         \* the configuration in force: "none", "file" or "basic"
    config_log,         \* the calls (by number) that ran the configuration step
    lg_calls,           \* calls of setup_logging / get_logger made so far
    loggers,            \* the names of the loggers handed out
    lg_error,           \* the exception that left the last call ("" : none)
    \* ---- pages/1_Backlog_Sampler.py
    bs_pc,              \* position in the page script
    df,                 \* the table the page works on
    error_msg,          \* validate_dataframe's answer
    genres_str,         \* the column genres_str, row by row
    available_genres,   \* the genres on offer in the selectbox
    selected_genre,
    unique_tracks,      \* the tracks offered for sampling
    selected_sample_size,
    display_df,         \* the sample shown
    bs_error            \* the exception that ended the script ("" : none)

pgVars == <<op, listing, failAt, user_filter, collaborative_filter, name_prefix,
            pg_pc, page, all_playlists, all_tracks, processed, plog, pg_result, error>>

ptVars == <<playlist_df, trackResp, pt_pc, pt_i, tracks_dfs, skipped_playlists,
            rate_limiter, total_tracks, tlog, pt_result, updates>>

paVars == <<tracks_arg, artistDefect, chunkResp, pa_pc, unique_artist_ids, max_workers,
            futures, processed_artists_data, alog, pa_result>>

plVars == <<pl_pc, tracks_df, combined_df, run, first_call>>

syVars == <<source, dest, dest_tracks, addFailAt, sy_pc, source_tracks, liked_track_ids,
            tracks_to_add, destination_playlist_id, sy_i, mutations, sy_result,
            sy_error, sy_run, dest_at_call>>

muVars == <<sp_handle, mu_arg, mu_pc, response, remote_calls, toast, mu_result, mu_error>>

caVars == <<cache, now, ncalls, last>>

lgVars == <<logging_initialized, log_dir, conf_ok, log_config, config_log, lg_calls,
            loggers, lg_error>>

bsVars == <<bs_pc, df, error_msg, genres_str, available_genres, selected_genre,
            unique_tracks, selected_sample_size, display_df, bs_error>>

vars == <<pgVars, ptVars, paVars, plVars, syVars, muVars, caVars, lgVars, bsVars>>

\* What the actions of one component leave alone.
restPg == <<ptVars, paVars, plVars, syVars, muVars, caVars, lgVars, bsVars>>
restPt == <<pgVars, paVars, plVars, syVars, muVars, caVars, lgVars, bsVars>>
restPa == <<pgVars, ptVars, plVars, syVars, muVars, caVars, lgVars, bsVars>>
restMu == <<pgVars, ptVars, paVars, plVars, syVars, caVars, lgVars, bsVars>>
restCa == <<pgVars, ptVars, paVars, plVars, syVars, muVars, lgVars, bsVars>>
restLg == <<pgVars, ptVars, paVars, plVars, syVars, muVars, caVars, bsVars>>
restBs == <<pgVars, ptVars, paVars, plVars, syVars, muVars, caVars, lgVars>>

----------------------------------------------------------------------------
(* Bounds of the model *)

MaxItems == 4
MaxPages == 3
MaxLogCalls == 4

\* The names get_logger is called with: "test", "spooty.x", "spootyx".
LoggerNames ==
    {<<"t", "e", "s", "t">>, <<"s", "p", "o", "o", "t", "y", ".", "x">>,
     <<"s", "p", "o", "o", "t", "y", "x">>}

----------------------------------------------------------------------------
(* JSON values *)

Absent == [st |-> "absent", v |-> 0]
Null == [st |-> "null", v |-> 0]
Val(x) == [st |-> "value", v |-> x]

RECURSIVE SumSeq(_)
SumSeq(s) == IF s = <<>> THEN 0 ELSE Head(s) + SumSeq(Tail(s))

RECURSIVE Flatten(_)
Flatten(ss) == IF ss = <<>> THEN <<>> ELSE Head(ss) \o Flatten(Tail(ss))

SelectRows(s, Test(_)) == SelectSeq(s, Test)

IsPrefix(p, s) == Len(p) <= Len(s) /\ SubSeq(s, 1, Len(p)) = p

Range(s) == {s[i] : i \in DOMAIN s}

----------------------------------------------------------------------------
(* The client handle _sp.  No function of spotify_helpers.py examines it:  *)
(* on None the first attribute access raises AttributeError and no request *)
(* leaves; on a handle whose authorization is no longer valid the request  *)
(* is sent and the client raises SpotifyException.                         *)

Usable == sp_handle = "valid"
HandleError == IF sp_handle = "none" THEN "AttributeError" ELSE "SpotifyException"

----------------------------------------------------------------------------
(* The remote: a paged listing.  A page is a sequence of items; page k     *)
(* carries a next-page indicator iff k < Len(listing); `total` is the      *)
(* number of items of the whole listing.                                   *)

HasNext(k) == k < Len(listing)
Total == Len(Flatten(listing))

\* A raw playlist object of current_user_playlists().
PlaylistObj(i) ==
    [id |-> i,
     name |-> IF i % 2 = 1 THEN <<"b", "l", "a">> ELSE <<"m", "i", "x">>,
     owner |-> IF i % 3 = 0 THEN "bob" ELSE "alice",
     collaborative |-> (i % 4 = 2)]

\* A raw item of a track listing: {"track": {...}} and the shapes it degrades to.
Artist(aid, aname) == [kind |-> "dict", id |-> aid, name |-> aname]
Track(ty, tid, tname, akind, first) ==
    [kind |-> "dict", type |-> ty, id |-> tid, name |-> tname,
     artists |-> akind, first |-> first]
Item(track) == [kind |-> "dict", track |-> track]
ValidItem(t, a) ==
    Item(Track("track", Val(t), Val(t), "list", Artist(Val(a), Val(a))))

\* The ways of cutting n items into at most MaxPages consecutive pages.
PageLens(n) ==
    {ls \in UNION {[1..p -> 0..n] : p \in 1..MaxPages} : SumSeq(ls) = n}
Offset(ls, k) == SumSeq(SubSeq(ls, 1, k - 1))
Paged(items, ls) ==
    [k \in 1..Len(ls) |-> SubSeq(items, Offset(ls, k) + 1, Offset(ls, k) + ls[k])]

----------------------------------------------------------------------------
(* get_playlists *)

\* get_playlists runs on its own or as the first step of process_library_data.
GPActive == op \in {"get_playlists", "process_library_data"}

OwnerFilter(x) == IF user_filter # "" THEN x.owner = user_filter ELSE TRUE
CollaborativeFilter(x) ==
    IF collaborative_filter # "None"
    THEN x.collaborative = (collaborative_filter = "True")
    ELSE TRUE
NameFilter(x) == IF name_prefix # <<>> THEN IsPrefix(name_prefix, x.name) ELSE TRUE

\* lines 151-154: the three filters, applied one after the other
ApplyFilters(df_playlists) ==
    SelectSeq(SelectSeq(SelectSeq(df_playlists, OwnerFilter), CollaborativeFilter),
              NameFilter)

\* line 111: playlists = _sp.current_user_playlists()
GP_Call ==
    /\ GPActive /\ pg_pc = "call"
    /\ plog' = IF sp_handle = "none" THEN plog ELSE Append(plog, "fetch")
    /\ IF ~Usable
       THEN /\ pg_pc' = "raised" /\ error' = HandleError
            /\ UNCHANGED page
       ELSE IF failAt = 1
       THEN /\ pg_pc' = "raised" /\ error' = "FetchError"
            /\ UNCHANGED page
       ELSE /\ pg_pc' = "loop" /\ page' = 1
            /\ UNCHANGED error
    /\ UNCHANGED <<op, listing, failAt, user_filter, collaborative_filter, name_prefix,
                   all_playlists, all_tracks, processed, pg_result>>
    /\ UNCHANGED restPg

\* Mutant of NextRaised: the loop ends on the error and keeps what it has.
NextSwallowed == pg_pc' = "filter" /\ page' = 0 /\ UNCHANGED error

\* line 128: _sp.next(playlists) raises; no handler is around the loop
NextRaised == pg_pc' = "raised" /\ error' = "FetchError" /\ UNCHANGED page

\* lines 119-131: one turn of `while playlists:`
GP_Loop ==
    /\ GPActive /\ pg_pc = "loop" /\ page # 0
    /\ LET items == listing[page]
           done == processed + Len(items)
       IN /\ all_playlists' = all_playlists \o items
          /\ processed' = done
          /\ IF Total = 0
             THEN \* line 123: processed / total_playlists
                  /\ pg_pc' = "raised" /\ error' = "ZeroDivisionError"
                  /\ UNCHANGED <<page, plog>>
             ELSE IF done > Total
             THEN \* line 124: st.progress rejects a value above 1.0
                  /\ pg_pc' = "raised" /\ error' = "StreamlitAPIException"
                  /\ UNCHANGED <<page, plog>>
             ELSE IF ~HasNext(page)
             THEN /\ page' = 0 /\ pg_pc' = "filter"
                  /\ UNCHANGED <<plog, error>>
             ELSE IF failAt = page + 1
             THEN /\ plog' = Append(plog, "fetch")
                  /\ NextRaised
             ELSE /\ plog' = plog \o <<"fetch", "sleep">>
                  /\ page' = page + 1
                  /\ UNCHANGED <<pg_pc, error>>
    /\ UNCHANGED <<op, listing, failAt, user_filter, collaborative_filter, name_prefix,
                   all_tracks, pg_result>>
    /\ UNCHANGED restPg

\* lines 137-158: the DataFrame and its filters
GP_Filter ==
    /\ GPActive /\ pg_pc = "filter"
    /\ IF all_playlists = <<>>
       THEN \* a DataFrame of no records has no column "owner"
            /\ pg_pc' = "raised" /\ error' = "KeyError"
            /\ UNCHANGED pg_result
       ELSE /\ pg_result' = ApplyFilters(all_playlists)
            /\ pg_pc' = "returned"
            /\ UNCHANGED error
    /\ UNCHANGED <<op, listing, failAt, user_filter, collaborative_filter, name_prefix,
                   page, all_playlists, all_tracks, processed, plog>>
    /\ UNCHANGED restPg

----------------------------------------------------------------------------
(* get_liked_songs *)

\* get_liked_songs runs on its own or inside sync_playlist_with_liked_songs.
LSActive == op \in {"get_liked_songs", "sync_playlist_with_liked_songs"}

\* lines 545-551: the row made of one saved-track item
WellFormedLiked(item) ==
    /\ item.kind = "dict" /\ item.track.kind = "dict"
    /\ item.track.id.st # "absent" /\ item.track.name.st # "absent"
    /\ item.track.artists = "list" /\ item.track.first.kind = "dict"
    /\ item.track.first.id.st # "absent" /\ item.track.first.name.st # "absent"
LikedRow(item) ==
    [track_id |-> item.track.id, track_name |-> item.track.name,
     artist_name |-> item.track.first.name, artist_id |-> item.track.first.id]
LikedRows(items) == [i \in 1..Len(items) |-> LikedRow(items[i])]

\* line 541: results = _sp.current_user_saved_tracks(limit=50)
LS_Call ==
    /\ LSActive /\ pg_pc = "call"
    /\ plog' = IF sp_handle = "none" THEN plog ELSE Append(plog, "fetch")
    /\ IF ~Usable
       THEN /\ pg_pc' = "raised" /\ error' = HandleError
            /\ UNCHANGED page
       ELSE IF failAt = 1
       THEN /\ pg_pc' = "raised" /\ error' = "FetchError"
            /\ UNCHANGED page
       ELSE /\ pg_pc' = "loop" /\ page' = 1
            /\ UNCHANGED error
    /\ UNCHANGED <<op, listing, failAt, user_filter, collaborative_filter, name_prefix,
                   all_playlists, all_tracks, processed, pg_result>>
    /\ UNCHANGED restPg

\* lines 543-556: one turn of `while results:`
LS_Loop ==
    /\ LSActive /\ pg_pc = "loop" /\ page # 0
    /\ LET items == listing[page]
       IN IF \E i \in 1..Len(items) : ~WellFormedLiked(items[i])
          THEN /\ pg_pc' = "raised" /\ error' = "KeyError"
               /\ UNCHANGED <<page, plog, all_tracks>>
          ELSE /\ all_tracks' = all_tracks \o LikedRows(items)
               /\ IF ~HasNext(page)
                  THEN /\ page' = 0 /\ pg_pc' = "return"
                       /\ plog' = Append(plog, "sleep")
                       /\ UNCHANGED error
                  ELSE IF failAt = page + 1
                  THEN /\ plog' = Append(plog, "fetch")
                       /\ pg_pc' = "raised" /\ error' = "FetchError"
                       /\ UNCHANGED page
                  ELSE /\ plog' = plog \o <<"fetch", "sleep">>
                       /\ page' = page + 1
                       /\ UNCHANGED <<pg_pc, error>>
    /\ UNCHANGED <<op, listing, failAt, user_filter, collaborative_filter, name_prefix,
                   all_playlists, processed, pg_result>>
    /\ UNCHANGED restPg

\* line 558: return pd.DataFrame(all_tracks)
LS_Return ==
    /\ LSActive /\ pg_pc = "return"
    /\ pg_result' = all_tracks
    /\ pg_pc' = "returned"
    /\ UNCHANGED <<op, listing, failAt, user_filter, collaborative_filter, name_prefix,
                   page, all_playlists, all_tracks, processed, plog, error>>
    /\ UNCHANGED restPg

----------------------------------------------------------------------------
(* AdaptiveRateLimiter (lines 161-188) *)

WINDOW == 10            \* line 174: at most 10 response times are kept
MIN_SAMPLES == 5        \* line 178
FAST_MS == 500          \* line 178: mean(response_times) < 0.5
INITIAL_DELAY == 1000   \* line 163: initial_delay = 1.0
MIN_DELAY == 100        \* line 163: min_delay = 0.1
MAX_DELAY == 2000       \* line 163: max_delay = 2.0

Max(a, b) == IF a >= b THEN a ELSE b
Min(a, b) == IF a <= b THEN a ELSE b

\* __init__
AdaptiveRateLimiter(initial_delay, min_delay, max_delay) ==
    [current_delay |-> initial_delay, min_delay |-> min_delay,
     max_delay |-> max_delay, response_times |-> <<>>, error_count |-> 0]

\* Mutant of Pushed: nothing is dropped.
PushedUncapped(times, response_time) == Append(times, response_time)

\* lines 173-175: append, then drop the oldest beyond the window
Pushed(times, response_time) ==
    LET a == Append(times, response_time)
    IN IF Len(a) > WINDOW THEN Tail(a) ELSE a

\* Mutant of FastEnough: the number of samples is not looked at.
FastEnoughAnyCount(times) == SumSeq(times) < FAST_MS * Len(times)

\* line 178: len(self.response_times) >= 5 and mean(self.response_times) < 0.5
FastEnough(times) ==
    Len(times) >= MIN_SAMPLES /\ SumSeq(times) < FAST_MS * Len(times)

\* Mutant of Decayed: the decay is not floored at min_delay.
DecayedUnfloored(rl) == (rl.current_delay * 9) \div 10

\* line 179: max(self.min_delay, self.current_delay * 0.9)
Decayed(rl) == Max(rl.min_delay, (rl.current_delay * 9) \div 10)

\* Mutant of Grown: the growth is not capped at max_delay.
GrownUncapped(rl) == (rl.current_delay * 3) \div 2

\* line 184: min(self.max_delay, self.current_delay * 1.5)
Grown(rl) == Min(rl.max_delay, (rl.current_delay * 3) \div 2)

\* Mutant of Update: a success leaves the error counter as it is.
UpdateKeepingCount(rl, success, response_time) ==
    IF success
    THEN LET times == Pushed(rl.response_times, response_time)
         IN [rl EXCEPT !.response_times = times,
                       !.current_delay = IF FastEnough(times) THEN Decayed(rl) ELSE @]
    ELSE [rl EXCEPT !.error_count = @ + 1,
                    !.current_delay = Grown(rl)]

\* update(success, response_time)
Update(rl, success, response_time) ==
    IF success
    THEN LET times == Pushed(rl.response_times, response_time)
         IN [rl EXCEPT !.response_times = times,
                       !.current_delay = IF FastEnough(times) THEN Decayed(rl) ELSE @,
                       !.error_count = 0]
    ELSE [rl EXCEPT !.error_count = @ + 1,
                    !.current_delay = Grown(rl)]

\* The response times a call may be measured to take (ms).
ResponseTimes == {100, 900}

----------------------------------------------------------------------------
(* pull_tracks (lines 191-310) *)

\* Mutant of ValidTrack: the test for a podcast episode is missing.
ValidTrackNoEpisode(item) ==
    /\ item.kind = "dict"
    /\ item.track.kind = "dict"
    /\ item.track.artists = "list"
    /\ item.track.id.st # "absent"
    /\ item.track.name.st # "absent"
    /\ item.track.first.kind = "dict"
    /\ item.track.first.id.st # "absent"
    /\ item.track.first.name.st # "absent"

\* lines 231-254: the item passes every test of the normalizer loop
ValidTrack(item) ==
    /\ item.kind = "dict"                                   \* line 231
    /\ item.track.kind = "dict"                             \* line 235
    /\ item.track.type # "episode"                          \* line 239
    /\ item.track.artists = "list"                          \* lines 240-242
    /\ item.track.id.st # "absent"                          \* line 246
    /\ item.track.name.st # "absent"
    /\ item.track.first.kind = "dict"                       \* line 251
    /\ item.track.first.id.st # "absent"
    /\ item.track.first.name.st # "absent"

\* lines 269-273: the row of one valid track
TrackRow(item, playlist_id) ==
    [artist_name |-> item.track.first.name, artist_id |-> item.track.first.id,
     track_name |-> item.track.name, track_id |-> item.track.id,
     playlist_id |-> playlist_id]

\* lines 229-254 and 262-273: the table of one playlist's items
ValidRows(items, playlist_id) ==
    LET valid_tracks == SelectSeq(items, ValidTrack)
    IN [k \in 1..Len(valid_tracks) |-> TrackRow(valid_tracks[k], playlist_id)]

Skip(pl, reason) == [name |-> pl.name, id |-> pl.id, reason |-> reason]
Ev(e, p, d) == [e |-> e, p |-> p, d |-> d]

\* lines 198-210: the set-up before the loop
PT_Call ==
    /\ pt_pc = "call"
    /\ pt_pc' = "loop"
    /\ pt_i' = 0 /\ tracks_dfs' = <<>> /\ skipped_playlists' = <<>>
    /\ total_tracks' = 0
    /\ rate_limiter' = AdaptiveRateLimiter(INITIAL_DELAY, MIN_DELAY, MAX_DELAY)
    /\ UNCHANGED <<playlist_df, trackResp, tlog, pt_result, updates>>
    /\ UNCHANGED restPt

\* Mutant of Except: the handler leaves the loop (break) instead of going on.
ExceptBreak(pl, rl, log, reason) ==
    /\ skipped_playlists' = Append(skipped_playlists, Skip(pl, reason))
    /\ rate_limiter' = Update(rl, FALSE, 0)
    /\ tlog' = tlog \o log \o <<Ev("update", pl.id, 0)>>
    /\ pt_i' = Len(playlist_df)
    /\ UNCHANGED <<tracks_dfs, total_tracks>>

\* lines 288-293: the handler of an exception raised in the loop body; `rl` is
\* the limiter as the body left it, `log` the events of the body.  The loop
\* goes on with the next playlist.
Except(pl, rl, log, reason) ==
    /\ skipped_playlists' = Append(skipped_playlists, Skip(pl, reason))
    /\ rate_limiter' = Update(rl, FALSE, 0)
    /\ tlog' = tlog \o log \o <<Ev("update", pl.id, 0)>>
    /\ pt_i' = pt_i + 1
    /\ UNCHANGED <<tracks_dfs, total_tracks>>

\* Mutant of SkipPlaylist: the skip is handled as an error of the fetch.
SkipPlaylistAsError(pl, rl, log, reason) ==
    /\ skipped_playlists' = Append(skipped_playlists, Skip(pl, reason))
    /\ rate_limiter' = Update(rl, FALSE, 0)
    /\ tlog' = tlog \o log \o <<Ev("update", pl.id, 0)>>
    /\ pt_i' = pt_i + 1
    /\ UNCHANGED <<tracks_dfs, total_tracks>>

\* lines 223-226 and 256-259: the playlist is skipped with a reason
SkipPlaylist(pl, rl, log, reason) ==
    /\ skipped_playlists' = Append(skipped_playlists, Skip(pl, reason))
    /\ rate_limiter' = rl
    /\ tlog' = tlog \o log
    /\ pt_i' = pt_i + 1
    /\ UNCHANGED <<tracks_dfs, total_tracks>>

\* lines 261-286: the playlist's table is kept, then the limiter's delay
KeepTracks(pl, rl, log, tracks) ==
    /\ tracks_dfs' = Append(tracks_dfs, tracks)
    /\ total_tracks' = total_tracks + Len(tracks)
    /\ rate_limiter' = rl
    /\ tlog' = tlog \o log \o <<Ev("delay", pl.id, rl.current_delay)>>
    /\ pt_i' = pt_i + 1
    /\ UNCHANGED skipped_playlists

\* lines 211-293: one turn of the loop over the playlists.  The handler of
\* lines 275-278 is left out: every track that passed ValidTrack has the
\* fields lines 269-272 read.
PT_Loop ==
    /\ pt_pc = "loop" /\ pt_i < Len(playlist_df)
    /\ LET pl == playlist_df[pt_i + 1]
           resp == trackResp[pl.id]
           fetch == Ev("fetch", pl.id, 0)
       IN IF ~Usable
          THEN \* line 217 raises, with or without a request
               Except(pl, rate_limiter, IF sp_handle = "none" THEN <<>> ELSE <<fetch>>,
                      HandleError)
          ELSE IF resp.kind = "raise"
          THEN \* line 217 raises
               Except(pl, rate_limiter, <<fetch>>, "FetchError")
          ELSE \E response_time \in ResponseTimes :
               LET rl == Update(rate_limiter, TRUE, response_time)   \* line 221
                   log == <<fetch, Ev("update", pl.id, 1)>>
               IN IF resp.kind \in {"none", "noitems"}
                  THEN SkipPlaylist(pl, rl, log, "No track data returned")
                  ELSE IF resp.kind = "items_null"
                  THEN \* line 230: iterating None
                       Except(pl, rl, log, "TypeError")
                  ELSE LET tracks == ValidRows(resp.items, pl.id)
                       IN IF tracks = <<>>
                          THEN SkipPlaylist(pl, rl, log, "No valid music tracks")
                          ELSE KeepTracks(pl, rl, log, tracks)
    /\ UNCHANGED <<playlist_df, trackResp, pt_pc, pt_result, updates>>
    /\ UNCHANGED restPt

\* lines 295-310: the concatenation, or the empty table with its columns
PT_Return ==
    /\ pt_pc = "loop" /\ pt_i >= Len(playlist_df)
    /\ pt_result' = Flatten(tracks_dfs)
    /\ pt_pc' = "returned"
    /\ UNCHANGED <<playlist_df, trackResp, pt_i, tracks_dfs, skipped_playlists,
                   rate_limiter, total_tracks, tlog, updates>>
    /\ UNCHANGED restPt

----------------------------------------------------------------------------
(* pull_artist_and_genre (lines 365-435) and _process_artist_batch         *)
(* (lines 313-363)                                                         *)

BATCH_SIZE == 50        \* line 22
WORKERS_CAP == 10       \* line 393: min(10, ...)

CeilDiv(a, b) == (a + b - 1) \div b

\* The remote's record of artist a: genres by id, and the defect drawn for it.
GenresOf(a) ==
    IF a % 3 = 1 THEN <<"rock", "pop">> ELSE IF a % 3 = 2 THEN <<>> ELSE <<"jazz">>
DefectOf(a) == IF a \in DOMAIN artistDefect THEN artistDefect[a] ELSE "none"
ArtistObj(a) ==
    [kind |-> IF DefectOf(a) = "null" THEN "null" ELSE "dict",
     id |-> IF DefectOf(a) = "noid" THEN Absent ELSE Val(a),
     name |-> IF DefectOf(a) = "noname" THEN Null ELSE Val(a),
     genres |-> [kind |-> IF DefectOf(a) = "badgenres" THEN "nonlist" ELSE "list",
                 v |-> GenresOf(a)]]

\* The fate of the k-th request: "ok", "raise" (the call raises) or "invalid"
\* (an answer without a list of artists).
ChunkAnswer(k) ==
    IF ~Usable THEN "raise" ELSE IF k \in DOMAIN chunkResp THEN chunkResp[k] ELSE "ok"

\* Mutant of ArtistTuple: the id and the name of the record are not examined.
ArtistTupleUnchecked(artist) ==
    IF artist.kind # "dict" THEN <<>>
    ELSE <<[artist_id |-> artist.id, artist_name |-> artist.name,
            genres |-> IF artist.genres.kind = "list" THEN artist.genres.v
                                                      ELSE <<>>]>>

\* lines 333-354: the tuple made of one artist record, or nothing
ArtistTuple(artist) ==
    IF artist.kind # "dict" THEN <<>>                                \* line 333
    ELSE IF artist.id.st # "value" \/ artist.name.st # "value" THEN <<>>  \* line 340
    ELSE <<[artist_id |-> artist.id, artist_name |-> artist.name,
            genres |-> IF artist.genres.kind = "list" THEN artist.genres.v
                                                      ELSE <<>>]>>

\* lines 330-359: the tuples of the usable records, in the order of the answer
ArtistTuples(artist_data) ==
    LET usable == SelectSeq(artist_data, LAMBDA artist : ArtistTuple(artist) # <<>>)
    IN [j \in 1..Len(usable) |-> ArtistTuple(usable[j])[1]]

\* Mutant of ProcessArtistBatch: the answer of the request is not examined.
ProcessArtistBatchUnchecked(k, batch_ids) ==
    ArtistTuples([j \in 1..Len(batch_ids) |-> ArtistObj(batch_ids[j])])

\* _process_artist_batch(_sp, batch_ids) as the k-th request
ProcessArtistBatch(k, batch_ids) ==
    IF batch_ids = <<>> THEN <<>>                                    \* line 315
    ELSE IF ChunkAnswer(k) # "ok" THEN <<>>                          \* lines 321-328, 361
    ELSE ArtistTuples([j \in 1..Len(batch_ids) |-> ArtistObj(batch_ids[j])])

\* Mutant of UniqueArtistIds: the null ids are dropped, duplicates are kept.
DropNaOnly(col) ==
    LET kept == SelectSeq(col, LAMBDA c : c.st = "value")
    IN [k \in 1..Len(kept) |-> kept[k].v]

\* line 379: tracks["artist_id"].dropna().unique(), in order of first appearance
UniqueArtistIds(col) ==
    LET indexed == [j \in 1..Len(col) |-> [j |-> j, c |-> col[j]]]
        kept == SelectSeq(indexed,
                          LAMBDA x : /\ x.c.st = "value"
                                     /\ \A i \in 1..(x.j - 1) : col[i] # x.c)
    IN [k \in 1..Len(kept) |-> kept[k].c.v]

ArtistIdColumn(tracks) == [j \in 1..Len(tracks) |-> tracks[j].artist_id]

\* line 400-401: the k-th batch, unique_artist_ids[i:i + BATCH_SIZE] with
\* i = (k - 1) * BATCH_SIZE
Batch(ids, k) ==
    SubSeq(ids, (k - 1) * BATCH_SIZE + 1, Min(k * BATCH_SIZE, Len(ids)))
NBatches(ids) == CeilDiv(Len(ids), BATCH_SIZE)

\* Mutant of PoolSize: one worker per batch, however many batches there are.
PoolSizeUncapped(ids) == NBatches(ids)

\* line 393: min(10, math.ceil(total_artists / BATCH_SIZE))
PoolSize(ids) == Min(WORKERS_CAP, NBatches(ids))

\* Mutant of Extended: the batch's results are added last record first.
ExtendedBackwards(data, batch_results) ==
    data \o [j \in 1..Len(batch_results) |->
                batch_results[Len(batch_results) + 1 - j]]

\* Mutant of Extended: the batch's results replace what was gathered.
Replaced(data, batch_results) == batch_results

\* line 411: processed_artists_data.extend(batch_results)
Extended(data, batch_results) == data \o batch_results

InState(st) == {k \in 1..Len(futures) : futures[k].st = st}

\* lines 372-394: the early returns, the unique ids and the pool size
PA_Call ==
    /\ pa_pc = "call"
    /\ LET ids == UniqueArtistIds(ArtistIdColumn(tracks_arg))
       IN IF tracks_arg = <<>> \/ ids = <<>>
          THEN /\ pa_pc' = "returned" /\ pa_result' = <<>>
               /\ UNCHANGED <<unique_artist_ids, max_workers>>
          ELSE /\ unique_artist_ids' = ids
               /\ max_workers' = PoolSize(ids)
               /\ pa_pc' = "submit"
               /\ UNCHANGED pa_result
    /\ UNCHANGED <<tracks_arg, artistDefect, chunkResp, futures,
                   processed_artists_data, alog>>
    /\ UNCHANGED restPa

\* lines 400-403: the main thread submits the next batch
PA_Submit ==
    /\ pa_pc = "submit"
    /\ IF Len(futures) < NBatches(unique_artist_ids)
       THEN /\ futures' = Append(futures, [st |-> "queued", result |-> <<>>])
            /\ UNCHANGED pa_pc
       ELSE /\ pa_pc' = "collect"
            /\ UNCHANGED futures
    /\ UNCHANGED <<tracks_arg, artistDefect, chunkResp, unique_artist_ids, max_workers,
                   processed_artists_data, alog, pa_result>>
    /\ UNCHANGED restPa

\* A free worker of the pool takes the oldest queued batch and issues its
\* request (line 320).
PA_WorkerStart ==
    /\ pa_pc \in {"submit", "collect"}
    /\ InState("queued") # {}
    /\ Cardinality(InState("running")) < max_workers
    /\ LET k == CHOOSE q \in InState("queued") : \A r \in InState("queued") : q <= r
       IN /\ futures' = [futures EXCEPT ![k].st = "running"]
          /\ alog' = IF sp_handle = "none" THEN alog
                      ELSE Append(alog, Batch(unique_artist_ids, k))
    /\ UNCHANGED <<tracks_arg, artistDefect, chunkResp, pa_pc, unique_artist_ids,
                   max_workers, processed_artists_data, pa_result>>
    /\ UNCHANGED restPa

\* lines 321-363: the request of a running batch is answered (or raises) and
\* the worker returns the batch's tuples.
PA_WorkerFinish ==
    /\ pa_pc \in {"submit", "collect"}
    /\ \E k \in InState("running") :
          futures' = [futures EXCEPT
                         ![k] = [st |-> "done",
                                 result |-> ProcessArtistBatch(k,
                                               Batch(unique_artist_ids, k))]]
    /\ UNCHANGED <<tracks_arg, artistDefect, chunkResp, pa_pc, unique_artist_ids,
                   max_workers, processed_artists_data, alog, pa_result>>
    /\ UNCHANGED restPa

\* lines 406-422: as_completed hands the main thread a completed batch
PA_Collect ==
    /\ pa_pc = "collect"
    /\ \E k \in InState("done") :
          /\ futures' = [futures EXCEPT ![k].st = "consumed"]
          /\ processed_artists_data' =
                IF futures[k].result # <<>>                           \* line 410
                THEN Extended(processed_artists_data, futures[k].result)
                ELSE processed_artists_data
    /\ UNCHANGED <<tracks_arg, artistDefect, chunkResp, pa_pc, unique_artist_ids,
                   max_workers, alog, pa_result>>
    /\ UNCHANGED restPa

\* lines 424-435: every batch was collected; the table is built
PA_Return ==
    /\ pa_pc = "collect"
    /\ InState("consumed") = 1..Len(futures)
    /\ pa_result' = processed_artists_data
    /\ pa_pc' = "returned"
    /\ UNCHANGED <<tracks_arg, artistDefect, chunkResp, unique_artist_ids, max_workers,
                   futures, processed_artists_data, alog>>
    /\ UNCHANGED restPa

\* pull_artist_and_genre is not under way
PaIdle ==
    /\ tracks_arg = <<>> /\ artistDefect = <<>> /\ chunkResp = <<>>
    /\ pa_pc = "idle" /\ unique_artist_ids = <<>> /\ max_workers = 0
    /\ futures = <<>> /\ processed_artists_data = <<>> /\ alog = <<>>
    /\ pa_result = <<>>

----------------------------------------------------------------------------
(* process_library_data (lines 495-526) *)

\* The cell of the column "genres": null, a list of genres, or one genre.
NullGenres == [st |-> "null", v |-> <<>>]
ListGenres(g) == [st |-> "list", v |-> g]
OneGenre(g) == [st |-> "scalar", v |-> <<g>>]

\* A row of tracks_df.merge(artist_genre_df, on="artist_id", how="left"):
\* both tables have a column artist_name, which the merge suffixes _x and _y.
\* j = 0 stands for "no artist row matches".
MergedRow(t, artists, j) ==
    [artist_name_x |-> t.artist_name, artist_id |-> t.artist_id,
     track_name |-> t.track_name, track_id |-> t.track_id,
     playlist_id |-> t.playlist_id,
     artist_name_y |-> IF j = 0 THEN Null ELSE artists[j].artist_name,
     genres |-> IF j = 0 THEN NullGenres ELSE ListGenres(artists[j].genres)]

\* Mutant of Merge: the genre list is exploded, one row per genre and a row
\* with a null genre for an empty list.
MergeExploded(tracks, artists) ==
    LET w == 3
        Match(i) == {j \in 1..Len(artists) : artists[j].artist_id = tracks[i].artist_id}
        cells == [n \in 1..(Len(tracks) * w) |->
                     [i |-> ((n - 1) \div w) + 1, g |-> (n - 1) % w]]
        G(i) == IF Match(i) = {} THEN <<>>
                ELSE artists[CHOOSE j \in Match(i) : TRUE].genres
        kept == SelectSeq(cells, LAMBDA c : c.g = 0 \/ c.g < Len(G(c.i)))
    IN [k \in 1..Len(kept) |->
          LET t == tracks[kept[k].i]
              j == IF Match(kept[k].i) = {} THEN 0
                   ELSE CHOOSE x \in Match(kept[k].i) : TRUE
          IN [MergedRow(t, artists, j) EXCEPT
                 !.genres = IF G(kept[k].i) = <<>> THEN NullGenres
                            ELSE OneGenre(G(kept[k].i)[kept[k].g + 1])]]

\* line 524: the left join on artist_id.  The rows keep the order of the
\* track table; a track row with several matching artist rows gives one row
\* per match, a track row with none gives one row with null artist columns.
Merge(tracks, artists) ==
    LET w == Len(artists) + 1
        cells == [n \in 1..(Len(tracks) * w) |->
                     [i |-> ((n - 1) \div w) + 1, j |-> (n - 1) % w]]
        Matches(i, j) == artists[j].artist_id = tracks[i].artist_id
        kept == SelectSeq(cells,
                    LAMBDA c : IF c.j = 0
                               THEN \A j \in 1..Len(artists) : ~Matches(c.i, j)
                               ELSE Matches(c.i, c.j))
    IN [k \in 1..Len(kept) |-> MergedRow(tracks[kept[k].i], artists, kept[k].j)]

\* pull_tracks is not under way
PtIdle ==
    /\ playlist_df = <<>> /\ trackResp = <<>> /\ pt_pc = "idle" /\ pt_i = 0
    /\ tracks_dfs = <<>> /\ skipped_playlists = <<>>
    /\ rate_limiter = AdaptiveRateLimiter(INITIAL_DELAY, MIN_DELAY, MAX_DELAY)
    /\ total_tracks = 0 /\ tlog = <<>> /\ pt_result = <<>> /\ updates = 0

\* get_playlists / get_liked_songs are not under way
PgIdle ==
    /\ listing = <<>> /\ failAt = 0
    /\ user_filter = "" /\ collaborative_filter = "None" /\ name_prefix = <<>>
    /\ pg_pc = "idle" /\ page = 0
    /\ all_playlists = <<>> /\ all_tracks = <<>> /\ processed = 0
    /\ plog = <<>> /\ pg_result = <<>> /\ error = ""

\* process_library_data is not under way
PlIdle ==
    /\ pl_pc = "idle" /\ tracks_df = <<>> /\ combined_df = <<>> /\ run = 1
    /\ first_call = [outcome |-> "", error |-> "", rows |-> <<>>, artists |-> <<>>]

\* The locals of a callee are gone once it has returned.
PgPopped ==
    /\ page' = 0 /\ all_playlists' = <<>> /\ all_tracks' = <<>> /\ processed' = 0
    /\ plog' = <<>> /\ pg_result' = <<>>
PtPopped ==
    /\ pt_i' = 0 /\ tracks_dfs' = <<>> /\ skipped_playlists' = <<>>
    /\ rate_limiter' = AdaptiveRateLimiter(INITIAL_DELAY, MIN_DELAY, MAX_DELAY)
    /\ total_tracks' = 0 /\ tlog' = <<>> /\ pt_result' = <<>>
PaPopped ==
    /\ unique_artist_ids' = <<>> /\ max_workers' = 0 /\ futures' = <<>>
    /\ processed_artists_data' = <<>> /\ alog' = <<>> /\ pa_result' = <<>>

\* line 521: playlists_df = get_playlists(_sp) is called
PL_Call ==
    /\ UNCHANGED <<syVars, muVars, caVars, lgVars, bsVars>>
    /\ op = "process_library_data" /\ pl_pc = "call"
    /\ pl_pc' = "playlists" /\ pg_pc' = "call"
    /\ UNCHANGED <<op, listing, failAt, user_filter, collaborative_filter, name_prefix,
                   page, all_playlists, all_tracks, processed, plog, pg_result, error>>
    /\ UNCHANGED <<tracks_df, combined_df, run, first_call>>
    /\ UNCHANGED <<ptVars, paVars>>

\* line 521: get_playlists raised; nothing in process_library_data catches it
PL_Raise ==
    /\ UNCHANGED <<syVars, muVars, caVars, lgVars, bsVars>>
    /\ op = "process_library_data" /\ pl_pc = "playlists" /\ pg_pc = "raised"
    /\ pl_pc' = "raised" /\ pg_pc' = "idle"
    /\ PgPopped
    /\ UNCHANGED <<op, listing, failAt, user_filter, collaborative_filter, name_prefix,
                   error>>
    /\ UNCHANGED <<tracks_df, combined_df, run, first_call>>
    /\ UNCHANGED <<ptVars, paVars>>

\* line 522: tracks_df = pull_tracks(_sp, playlists_df) is called
PL_Tracks ==
    /\ UNCHANGED <<syVars, muVars, caVars, lgVars, bsVars>>
    /\ op = "process_library_data" /\ pl_pc = "playlists" /\ pg_pc = "returned"
    /\ pl_pc' = "tracks" /\ pg_pc' = "idle"
    /\ playlist_df' = pg_result /\ pt_pc' = "call"
    /\ PgPopped
    /\ UNCHANGED <<op, listing, failAt, user_filter, collaborative_filter, name_prefix,
                   error>>
    /\ UNCHANGED <<trackResp, pt_i, tracks_dfs, skipped_playlists, rate_limiter,
                   total_tracks, tlog, pt_result, updates>>
    /\ UNCHANGED <<tracks_df, combined_df, run, first_call>>
    /\ UNCHANGED paVars

\* line 523: artist_genre_df = pull_artist_and_genre(_sp, tracks_df) is called
PL_Artists ==
    /\ UNCHANGED <<syVars, muVars, caVars, lgVars, bsVars>>
    /\ op = "process_library_data" /\ pl_pc = "tracks" /\ pt_pc = "returned"
    /\ pl_pc' = "artists" /\ pt_pc' = "idle"
    /\ tracks_df' = pt_result
    /\ tracks_arg' = pt_result /\ pa_pc' = "call"
    /\ playlist_df' = <<>>
    /\ PtPopped
    /\ UNCHANGED <<trackResp, updates>>
    /\ UNCHANGED <<artistDefect, chunkResp, unique_artist_ids, max_workers, futures,
                   processed_artists_data, alog, pa_result>>
    /\ UNCHANGED <<combined_df, run, first_call>>
    /\ UNCHANGED pgVars

\* lines 524-526: the merge and the return
PL_Merge ==
    /\ UNCHANGED <<syVars, muVars, caVars, lgVars, bsVars>>
    /\ op = "process_library_data" /\ pl_pc = "artists" /\ pa_pc = "returned"
    /\ combined_df' = Merge(tracks_df, pa_result)
    /\ pl_pc' = "returned" /\ pa_pc' = "idle"
    /\ first_call' = IF run = 1 THEN [first_call EXCEPT !.artists = pa_result]
                                ELSE first_call
    /\ tracks_arg' = <<>>
    /\ unique_artist_ids' = <<>> /\ max_workers' = 0 /\ futures' = <<>>
    /\ processed_artists_data' = <<>> /\ alog' = <<>>
    /\ UNCHANGED <<artistDefect, chunkResp, pa_result>>
    /\ UNCHANGED <<tracks_df, run>>
    /\ UNCHANGED <<pgVars, ptVars>>

\* The operation is called a second time against the same remote state, no
\* cached result being at hand (the entry was cleared, or the process is new).
PL_Again ==
    /\ UNCHANGED <<syVars, muVars, caVars, lgVars, bsVars>>
    /\ op = "process_library_data" /\ pl_pc \in {"returned", "raised"} /\ run = 1
    /\ run' = 2
    /\ first_call' = [first_call EXCEPT !.outcome = pl_pc, !.error = error,
                                        !.rows = combined_df]
    /\ pl_pc' = "call"
    /\ tracks_df' = <<>> /\ combined_df' = <<>>
    /\ error' = "" /\ pa_result' = <<>>
    /\ UNCHANGED <<op, listing, failAt, user_filter, collaborative_filter, name_prefix,
                   pg_pc, page, all_playlists, all_tracks, processed, plog, pg_result>>
    /\ UNCHANGED <<tracks_arg, artistDefect, chunkResp, pa_pc, unique_artist_ids,
                   max_workers, futures, processed_artists_data, alog>>
    /\ UNCHANGED ptVars

----------------------------------------------------------------------------
(* sync_playlist_with_liked_songs (lines 561-633) *)

ADD_BATCH == 100        \* line 627: range(0, len(tracks_to_add), 100)
CREATED_ID == 900       \* the id the remote gives a playlist it creates

In(x, seq) == \E k \in 1..Len(seq) : seq[k] = x
Call(c, ids) == [call |-> c, ids |-> ids]
AddCalls == SelectSeq(mutations, LAMBDA m : m.call = "add")

\* Mutant of AddBatch: everything from position i on goes into one call.
AddBatchUnbounded(tracks, i) == SubSeq(tracks, i + 1, Len(tracks))

\* line 628: batch = tracks_to_add[i:i + 100]
AddBatch(tracks, i) == SubSeq(tracks, i + 1, Min(i + ADD_BATCH, Len(tracks)))

\* Mutant of UserPlaylistCreate: no playlist is created.
NothingCreated(calls) == calls

\* lines 604-608: _sp.user_playlist_create(...) among the mutating calls
UserPlaylistCreate(calls) == Append(calls, Call("create", <<>>))

\* Mutant of NotAlreadyThere: the destination's tracks are not taken out.
KeptAll(tracks, existing_tracks) == tracks

\* line 623: the tracks that are not in the destination yet
NotAlreadyThere(tracks, existing_tracks) ==
    SelectSeq(tracks, LAMBDA t : ~In(t, existing_tracks))

\* lines 582-590: the ids of the source playlist, page after page
SY_Source ==
    /\ op = "sync_playlist_with_liked_songs" /\ sy_pc = "call"
    /\ IF ~Usable \/ source.fails
       THEN /\ sy_pc' = "raised"
            /\ sy_error' = IF ~Usable THEN HandleError ELSE "FetchError"
            /\ UNCHANGED <<source_tracks, pg_pc>>
       ELSE /\ source_tracks' = source.ids
            /\ sy_pc' = "liked" /\ pg_pc' = "call"     \* line 593 is called
            /\ UNCHANGED sy_error
    /\ dest_at_call' = dest_tracks
    /\ UNCHANGED <<source, dest, dest_tracks, addFailAt, liked_track_ids, tracks_to_add,
                   destination_playlist_id, sy_i, mutations, sy_result, sy_run>>
    /\ UNCHANGED <<op, listing, failAt, user_filter, collaborative_filter, name_prefix,
                   page, all_playlists, all_tracks, processed, plog, pg_result, error>>
    /\ UNCHANGED <<ptVars, paVars, plVars, muVars, caVars, lgVars, bsVars>>

\* lines 593-597: get_liked_songs has returned or raised; the liked ids and
\* the source tracks that are liked.  A table made of no row has no column
\* "track_id".
SY_Liked ==
    /\ op = "sync_playlist_with_liked_songs" /\ sy_pc = "liked"
    /\ pg_pc \in {"returned", "raised"}
    /\ IF pg_pc = "raised"
       THEN /\ sy_pc' = "raised" /\ sy_error' = error
            /\ UNCHANGED <<liked_track_ids, tracks_to_add>>
       ELSE IF pg_result = <<>>
       THEN /\ sy_pc' = "raised" /\ sy_error' = "KeyError"
            /\ UNCHANGED <<liked_track_ids, tracks_to_add>>
       ELSE /\ liked_track_ids' = {pg_result[k].track_id : k \in 1..Len(pg_result)}
            /\ tracks_to_add' =
                  SelectSeq(source_tracks,
                            LAMBDA t : \E k \in 1..Len(pg_result) :
                                          pg_result[k].track_id = t)
            /\ sy_pc' = "dest"
            /\ UNCHANGED sy_error
    /\ pg_pc' = "idle" /\ error' = ""
    /\ PgPopped
    /\ UNCHANGED <<source, dest, dest_tracks, addFailAt, source_tracks,
                   destination_playlist_id, sy_i, mutations, sy_result, sy_run,
                   dest_at_call>>
    /\ UNCHANGED <<op, listing, failAt, user_filter, collaborative_filter, name_prefix>>
    /\ UNCHANGED <<ptVars, paVars, plVars, muVars, caVars, lgVars, bsVars>>

\* lines 600-623: the destination is created, or its tracks are read and taken
\* out of the tracks to add
SY_Dest ==
    /\ op = "sync_playlist_with_liked_songs" /\ sy_pc = "dest"
    /\ IF dest.id = 0
       THEN IF dest.user_id = 0 \/ dest.name = 0
            THEN /\ sy_pc' = "raised" /\ sy_error' = "ValueError"
                 /\ UNCHANGED <<mutations, destination_playlist_id, tracks_to_add>>
            ELSE /\ mutations' = UserPlaylistCreate(mutations)
                 /\ destination_playlist_id' = CREATED_ID
                 /\ sy_pc' = "add"
                 /\ UNCHANGED <<sy_error, tracks_to_add>>
       ELSE /\ tracks_to_add' = NotAlreadyThere(tracks_to_add, dest_tracks)
            /\ destination_playlist_id' = dest.id
            /\ sy_pc' = "add"
            /\ UNCHANGED <<sy_error, mutations>>
    /\ UNCHANGED <<source, dest, dest_tracks, addFailAt, source_tracks, liked_track_ids,
                   sy_i, sy_result, sy_run, dest_at_call>>
    /\ UNCHANGED <<pgVars, ptVars, paVars, plVars, muVars, caVars, lgVars, bsVars>>

\* lines 626-631: one turn of the add loop
SY_Add ==
    /\ op = "sync_playlist_with_liked_songs" /\ sy_pc = "add"
    /\ sy_i * ADD_BATCH < Len(tracks_to_add)
    /\ LET batch == AddBatch(tracks_to_add, sy_i * ADD_BATCH)
       IN IF batch = <<>>
          THEN /\ sy_i' = sy_i + 1
               /\ UNCHANGED <<mutations, dest_tracks, sy_pc, sy_error>>
          ELSE /\ mutations' = Append(mutations, Call("add", batch))
               /\ IF addFailAt = Len(AddCalls) + 1
                  THEN \* line 630 raises; nothing in the function catches it
                       /\ sy_pc' = "raised" /\ sy_error' = "AddError"
                       /\ UNCHANGED <<sy_i, dest_tracks>>
                  ELSE /\ dest_tracks' = dest_tracks \o batch
                       /\ sy_i' = sy_i + 1
                       /\ UNCHANGED <<sy_pc, sy_error>>
    /\ UNCHANGED <<source, dest, addFailAt, source_tracks, liked_track_ids, tracks_to_add,
                   destination_playlist_id, sy_result, sy_run, dest_at_call>>
    /\ UNCHANGED <<pgVars, ptVars, paVars, plVars, muVars, caVars, lgVars, bsVars>>

\* line 633: return destination_playlist_id
SY_Return ==
    /\ op = "sync_playlist_with_liked_songs" /\ sy_pc = "add"
    /\ sy_i * ADD_BATCH >= Len(tracks_to_add)
    /\ sy_result' = destination_playlist_id
    /\ sy_pc' = "returned"
    /\ UNCHANGED <<source, dest, dest_tracks, addFailAt, source_tracks, liked_track_ids,
                   tracks_to_add, destination_playlist_id, sy_i, mutations, sy_error,
                   sy_run, dest_at_call>>
    /\ UNCHANGED <<pgVars, ptVars, paVars, plVars, muVars, caVars, lgVars, bsVars>>

\* The sync is called again with the same source and the destination id the
\* first call returned, against the remote as the first call left it.
SY_Again ==
    /\ op = "sync_playlist_with_liked_songs" /\ sy_pc = "returned" /\ sy_run = 1
    /\ sy_run' = 2
    /\ dest' = [dest EXCEPT !.id = sy_result]
    /\ sy_pc' = "call"
    /\ source_tracks' = <<>> /\ liked_track_ids' = {} /\ tracks_to_add' = <<>>
    /\ destination_playlist_id' = 0 /\ sy_i' = 0 /\ mutations' = <<>>
    /\ sy_result' = 0
    /\ UNCHANGED <<source, dest_tracks, addFailAt, sy_error, dest_at_call>>
    /\ UNCHANGED <<pgVars, ptVars, paVars, plVars, muVars, caVars, lgVars, bsVars>>

\* The locals of a sync that has not begun
SyStart ==
    /\ source_tracks = <<>> /\ liked_track_ids = {} /\ tracks_to_add = <<>>
    /\ destination_playlist_id = 0 /\ sy_i = 0 /\ mutations = <<>>
    /\ sy_result = 0 /\ sy_error = ""
    /\ sy_run = 1 /\ dest_at_call = <<>>

\* sync_playlist_with_liked_songs is not under way
SyIdle ==
    /\ source = [fails |-> FALSE, ids |-> <<>>]
    /\ dest = [id |-> 0, user_id |-> 0, name |-> 0]
    /\ dest_tracks = <<>> /\ addFailAt = 0 /\ sy_pc = "idle"
    /\ SyStart

----------------------------------------------------------------------------
(* set_playlist_public_status (lines 438-466) and create_sample_playlist   *)
(* (lines 469-492)                                                         *)

OK_STATUS == 200        \* line 460: response.status_code == 200
UNAUTHORIZED == 401     \* the status the remote answers a stale token with

Remote(c, n) == [call |-> c, n |-> n]

\* line 449: access_token = _sp.auth_manager.get_access_token(as_dict=False).
\* An expired handle either fails to refresh its token or hands out the
\* stale one.
SS_Token ==
    /\ op = "set_playlist_public_status" /\ mu_pc = "call"
    /\ IF sp_handle = "none"
       THEN /\ mu_pc' = "raised" /\ mu_error' = "AttributeError"
            /\ UNCHANGED remote_calls
       ELSE IF sp_handle = "expired"
       THEN \/ /\ mu_pc' = "raised" /\ mu_error' = "SpotifyOauthError"
               /\ remote_calls' = Append(remote_calls, Remote("token", 0))
            \/ /\ mu_pc' = "put"
               /\ UNCHANGED <<mu_error, remote_calls>>
       ELSE /\ mu_pc' = "put"
            /\ UNCHANGED <<mu_error, remote_calls>>
    /\ UNCHANGED <<sp_handle, mu_arg, response, toast, mu_result>>
    /\ UNCHANGED restMu

\* line 458: response = requests.put(url, headers=headers, json=payload);
\* status 0 stands for a request that raises.
SS_Put ==
    /\ op = "set_playlist_public_status" /\ mu_pc = "put"
    /\ remote_calls' = Append(remote_calls, Remote("put", 0))
    /\ IF mu_arg.status = 0
       THEN /\ mu_pc' = "raised" /\ mu_error' = "ConnectionError"
            /\ UNCHANGED response
       ELSE /\ response' = IF sp_handle = "expired" THEN UNAUTHORIZED ELSE mu_arg.status
            /\ mu_pc' = "toast"
            /\ UNCHANGED mu_error
    /\ UNCHANGED <<sp_handle, mu_arg, toast, mu_result>>
    /\ UNCHANGED restMu

\* lines 460-466: the function ends without a return statement
Returned(status_code) == "None"

\* lines 460-465: the toast, and the end of the function
SS_Toast ==
    /\ op = "set_playlist_public_status" /\ mu_pc = "toast"
    /\ toast' = IF response = OK_STATUS THEN "updated" ELSE "failed"
    /\ mu_result' = Returned(response)
    /\ mu_pc' = "returned"
    /\ UNCHANGED <<sp_handle, mu_arg, response, remote_calls, mu_error>>
    /\ UNCHANGED restMu

\* lines 485-488: new_playlist = _sp.user_playlist_create(...)
CS_Create ==
    /\ op = "create_sample_playlist" /\ mu_pc = "call"
    /\ IF sp_handle = "none"
       THEN /\ mu_pc' = "raised" /\ mu_error' = "AttributeError"
            /\ UNCHANGED remote_calls
       ELSE /\ remote_calls' = Append(remote_calls, Remote("create", 0))
            /\ IF sp_handle = "expired" \/ mu_arg.failAt = 1
               THEN mu_pc' = "raised" /\ mu_error' = "SpotifyException"
               ELSE mu_pc' = "add" /\ UNCHANGED mu_error
    /\ UNCHANGED <<sp_handle, mu_arg, response, toast, mu_result>>
    /\ UNCHANGED restMu

\* line 491: the ids handed to _sp.user_playlist_add_tracks
TracksOfCall(track_ids) == track_ids

\* lines 489-492: track_ids = df["track_id"].tolist(), the one add-call and
\* the return of the playlist id
CS_Add ==
    /\ op = "create_sample_playlist" /\ mu_pc = "add"
    /\ remote_calls' =
          Append(remote_calls, Remote("add", Len(TracksOfCall(mu_arg.track_ids))))
    /\ IF mu_arg.failAt = 2
       THEN /\ mu_pc' = "raised" /\ mu_error' = "SpotifyException"
            /\ UNCHANGED mu_result
       ELSE /\ mu_pc' = "returned" /\ mu_result' = "playlist_id"
            /\ UNCHANGED mu_error
    /\ UNCHANGED <<sp_handle, mu_arg, response, toast>>
    /\ UNCHANGED restMu

\* The locals of an operation that has not begun
MuStart ==
    /\ response = 0 /\ remote_calls = <<>> /\ toast = ""
    /\ mu_result = "" /\ mu_error = ""

\* Neither operation is under way; the handle is a usable client.
MuIdle ==
    /\ sp_handle = "valid"
    /\ mu_arg = [status |-> 0, is_public |-> FALSE, track_ids |-> <<>>, failAt |-> 0]
    /\ mu_pc = "idle"
    /\ MuStart

----------------------------------------------------------------------------
(* st.cache_data as the five decorated functions use it (lines 95, 191,    *)
(* 365, 495, 529).  The key of an entry is made of the function and of the *)
(* hashed arguments; an argument whose name begins with an underscore -    *)
(* _sp in all five - is left out of the key.  An entry with a ttl is gone  *)
(* once ttl seconds have passed; an entry without one stays.               *)

TTL_SECONDS == 3600     \* lines 95, 191, 365: ttl=3600
NO_TTL == 0             \* lines 495, 529: @st.cache_data without a ttl

CachedFunctions ==
    {"get_playlists", "pull_tracks", "pull_artist_and_genre", "process_library_data",
     "get_liked_songs"}
Ttl(fn) ==
    IF fn \in {"get_playlists", "pull_tracks", "pull_artist_and_genre"}
    THEN TTL_SECONDS ELSE NO_TTL
\* The hashed arguments: filters of get_playlists, the table handed to
\* pull_tracks and pull_artist_and_genre; none for the other two.
HashedArgs(fn, args) ==
    IF fn \in {"process_library_data", "get_liked_songs"} THEN 0 ELSE args
CacheKey(fn, sp, args) == <<fn, HashedArgs(fn, args)>>
Fresh(entry, ttl) == ttl = NO_TTL \/ now < entry.at + ttl
Computed(fn, sp, args) == [fn |-> fn, owner |-> sp, args |-> HashedArgs(fn, args), at |-> now]

\* Cache is not in use
CaIdle ==
    /\ cache = <<>> /\ now = 0 /\ ncalls = 0
    /\ last = [fn |-> "", sp |-> "", args |-> 0, time |-> 0, hit |-> FALSE,
               value |-> [fn |-> "", owner |-> "", args |-> 0, at |-> 0]]

----------------------------------------------------------------------------
(* logging_setup.py: setup_logging and get_logger *)

\* line 55: f"spooty.{name}" unless name starts with "spooty"
SPOOTY == <<"s", "p", "o", "o", "t", "y">>
LoggerName(name) == IF IsPrefix(SPOOTY, name) THEN name ELSE SPOOTY \o <<".">> \o name

\* lines 9-38: setup_logging() as call number `call`
SetupLogging(call) ==
    IF logging_initialized
    THEN \* lines 18-19
         /\ lg_error' = ""
         /\ UNCHANGED <<logging_initialized, log_dir, log_config, config_log>>
    ELSE IF log_dir = "blocked"
    THEN \* line 23: log_dir.mkdir(exist_ok=True) raises, outside the try
         /\ lg_error' = "OSError"
         /\ UNCHANGED <<logging_initialized, log_dir, log_config, config_log>>
    ELSE \* lines 26-38: fileConfig, or basicConfig when it raises
         /\ log_dir' = "exists"
         /\ log_config' = IF conf_ok THEN "file" ELSE "basic"
         /\ config_log' = Append(config_log, call)
         /\ logging_initialized' = TRUE
         /\ lg_error' = ""

\* setup_logging()
LG_Setup ==
    /\ op = "logging_setup" /\ lg_calls < MaxLogCalls
    /\ lg_calls' = lg_calls + 1
    /\ SetupLogging(lg_calls + 1)
    /\ UNCHANGED <<conf_ok, loggers>>
    /\ UNCHANGED restLg

\* get_logger(name)
LG_GetLogger ==
    /\ op = "logging_setup" /\ lg_calls < MaxLogCalls
    /\ lg_calls' = lg_calls + 1
    /\ SetupLogging(lg_calls + 1)
    /\ \E name \in LoggerNames :
          loggers' = IF lg_error' = "" THEN loggers \cup {LoggerName(name)} ELSE loggers
    /\ UNCHANGED conf_ok
    /\ UNCHANGED restLg

\* The environment: what kept "logs" from being created is removed.
LG_DirFreed ==
    /\ op = "logging_setup" /\ log_dir = "blocked"
    /\ log_dir' = "missing"
    /\ UNCHANGED <<logging_initialized, conf_ok, log_config, config_log, lg_calls,
                   loggers, lg_error>>
    /\ UNCHANGED restLg

\* The module as imported, no call made
LgStart ==
    /\ logging_initialized = FALSE /\ log_config = "none" /\ config_log = <<>>
    /\ lg_calls = 0 /\ loggers = {} /\ lg_error = ""

\* logging_setup is not in use
LgIdle == LgStart /\ log_dir = "exists" /\ conf_ok = FALSE

----------------------------------------------------------------------------
(* pages/1_Backlog_Sampler.py: the page script from the call of            *)
(* process_library_data (line 52) to the sample it shows (line 111).  A    *)
(* genre name is a sequence of lower-case characters.                      *)

\* The columns of tracks_df.merge(artist_genre_df, on="artist_id", how="left")
MergedColumns ==
    DOMAIN MergedRow([artist_name |-> Null, artist_id |-> Null, track_name |-> Null,
                      track_id |-> Null, playlist_id |-> 0], <<>>, 0)
\* df.columns: the columns of the rows; a table of no rows is the merge of
\* two tables of no rows.
ColumnsOf(table) == IF table = <<>> THEN MergedColumns ELSE DOMAIN table[1]

RequiredColumns == {"track_id", "track_name", "artist_name", "genres"}    \* line 20
NoError == [error |-> "None", columns |-> {}]

\* lines 15-31: validate_dataframe(df)
ValidateDataframe(table) ==
    LET missing_columns == {col \in RequiredColumns : col \notin ColumnsOf(table)}
    IN IF missing_columns # {}
       THEN [error |-> "Missing required columns", columns |-> missing_columns]
       ELSE IF table = <<>>
       THEN [error |-> "No music data found in your library", columns |-> {}]
       ELSE IF \A i \in 1..Len(table) : table[i].genres.st = "null"
       THEN [error |-> "No genre information found in your library", columns |-> {}]
       ELSE NoError

RECURSIVE Join(_)
\* " ".join(genres_list)
Join(genres_list) ==
    IF genres_list = <<>> THEN <<>>
    ELSE IF Len(genres_list) = 1 THEN genres_list[1]
    ELSE genres_list[1] \o <<" ">> \o Join(Tail(genres_list))

\* lines 11-13: flatten_genres(genres_list)
FlattenGenres(genres_list) == IF genres_list # <<>> THEN Join(genres_list) ELSE <<>>

\* line 89: str.contains(selected_genre): the genre occurs somewhere in the
\* flattened string
Contains(str, pat) ==
    \E k \in 0..(Len(str) - Len(pat)) : SubSeq(str, k + 1, k + Len(pat)) = pat

\* line 90: drop_duplicates(subset="track_id") keeps the first row of each id
DropDuplicates(rows) ==
    LET first == {i \in 1..Len(rows) :
                     \A j \in 1..(i - 1) : rows[j].track_id # rows[i].track_id}
        marked == [i \in 1..Len(rows) |-> [row |-> rows[i], keep |-> i \in first]]
        kept == SelectSeq(marked, LAMBDA x : x.keep)
    IN [k \in 1..Len(kept) |-> kept[k].row]

\* line 108: the ways sample(n, replace=False) may pick n of the rows
Samples(rows, n) ==
    {[k \in 1..n |-> rows[pick[k]]] :
        pick \in {p \in [1..n -> 1..Len(rows)] :
                     \A a, b \in 1..n : a # b => p[a] # p[b]}}

\* lines 50-64: the table is loaded and validated
BS_Load ==
    /\ bs_pc = "load" /\ pl_pc \in {"returned", "raised"}
    /\ IF pl_pc = "raised"
       THEN \* lines 61-64
            /\ bs_error' = error /\ bs_pc' = "stopped"
            /\ UNCHANGED <<df, error_msg>>
       ELSE /\ df' = combined_df
            /\ error_msg' = ValidateDataframe(combined_df)
            /\ bs_pc' = IF error_msg' = NoError THEN "genres" ELSE "stopped"
            /\ UNCHANGED bs_error
    /\ UNCHANGED <<genres_str, available_genres, selected_genre, unique_tracks,
                   selected_sample_size, display_df>>
    /\ UNCHANGED restBs

\* lines 67-76: the flattened genres and the genres on offer.  A null cell is
\* NaN, which is true and cannot be joined: flatten_genres raises, and the
\* handler of line 151 ends the script.
BS_Genres ==
    /\ bs_pc = "genres"
    /\ IF \E i \in 1..Len(df) : df[i].genres.st = "null"
       THEN /\ bs_error' = "TypeError" /\ bs_pc' = "failed"
            /\ UNCHANGED <<genres_str, available_genres>>
       ELSE /\ genres_str' = [i \in 1..Len(df) |-> FlattenGenres(df[i].genres.v)]
            /\ available_genres' =
                  {genre \in UNION {Range(df[i].genres.v) : i \in 1..Len(df)} :
                      genre # <<>>}
            /\ bs_pc' = IF available_genres' = {} THEN "stopped" ELSE "select"
            /\ UNCHANGED bs_error
    /\ UNCHANGED <<df, error_msg, selected_genre, unique_tracks, selected_sample_size,
                   display_df>>
    /\ UNCHANGED restBs

\* lines 80-84: the user selects one of the genres on offer
BS_Select ==
    /\ bs_pc = "select"
    /\ \E genre \in available_genres : selected_genre' = genre
    /\ bs_pc' = "filter"
    /\ UNCHANGED <<df, error_msg, genres_str, available_genres, unique_tracks,
                   selected_sample_size, display_df, bs_error>>
    /\ UNCHANGED restBs

\* lines 89-96: the tracks offered under the selected genre
BS_Filter ==
    /\ bs_pc = "filter"
    /\ LET numbered == [i \in 1..Len(df) |-> [i |-> i, row |-> df[i]]]
           matching == SelectSeq(numbered,
                                 LAMBDA x : Contains(genres_str[x.i], selected_genre))
           genre_df == [k \in 1..Len(matching) |-> matching[k].row]
       IN /\ unique_tracks' = DropDuplicates(genre_df)
          /\ bs_pc' = IF unique_tracks' = <<>> THEN "stopped" ELSE "size"
    /\ UNCHANGED <<df, error_msg, genres_str, available_genres, selected_genre,
                   selected_sample_size, display_df, bs_error>>
    /\ UNCHANGED restBs

\* lines 100-105: the user chooses a sample size between 1 and the number of
\* tracks offered
BS_Size ==
    /\ bs_pc = "size"
    /\ \E n \in 1..Len(unique_tracks) : selected_sample_size' = n
    /\ bs_pc' = "sample"
    /\ UNCHANGED <<df, error_msg, genres_str, available_genres, selected_genre,
                   unique_tracks, display_df, bs_error>>
    /\ UNCHANGED restBs

\* lines 108-111: the sample
BS_Sample ==
    /\ bs_pc = "sample"
    /\ display_df' \in Samples(unique_tracks,
                               Min(selected_sample_size, Len(unique_tracks)))
    /\ bs_pc' = "preview"
    /\ UNCHANGED <<df, error_msg, genres_str, available_genres, selected_genre,
                   unique_tracks, selected_sample_size, bs_error>>
    /\ UNCHANGED restBs

\* The locals of a page script that has not run
BsLocals ==
    /\ df = <<>> /\ error_msg = NoError /\ genres_str = <<>>
    /\ available_genres = {} /\ selected_genre = <<>> /\ unique_tracks = <<>>
    /\ selected_sample_size = 0 /\ display_df = <<>> /\ bs_error = ""

\* The page script is about to load its table
BsStart == bs_pc = "load" /\ BsLocals

\* The page is not open
BsIdle == bs_pc = "idle" /\ BsLocals

----------------------------------------------------------------------------
(* The page-following loops on their own: any listing of at most MaxItems  *)
(* items cut into at most MaxPages pages, any failing page.                *)

PgStart ==
    /\ pg_pc = "call" /\ page = 0
    /\ all_playlists = <<>> /\ all_tracks = <<>> /\ processed = 0
    /\ plog = <<>> /\ pg_result = <<>> /\ error = ""

PlaylistItems(n) == [i \in 1..n |-> PlaylistObj(i)]
LikedItems(n) == [i \in 1..n |-> ValidItem(i, i)]

InitPaginate ==
    /\ op \in {"get_playlists", "get_liked_songs"}
    /\ \E n \in 0..MaxItems : \E ls \in PageLens(n) :
          /\ listing = Paged(IF op = "get_playlists" THEN PlaylistItems(n)
                                                     ELSE LikedItems(n), ls)
          /\ failAt \in 0..Len(ls)
    /\ user_filter \in {"", "alice"}
    /\ collaborative_filter \in {"None", "False", "True"}
    /\ name_prefix \in {<<>>, <<"b", "l">>}
    /\ PgStart
    /\ PtIdle
    /\ PaIdle
    /\ PlIdle
    /\ SyIdle
    /\ MuIdle
    /\ CaIdle
    /\ LgIdle
    /\ BsIdle

NextPaginate == GP_Call \/ GP_Loop \/ GP_Filter \/ LS_Call \/ LS_Loop \/ LS_Return

SpecPaginate == InitPaginate /\ [][NextPaginate]_vars

\* The listing answered every fetch the loop could issue.
RemoteHealthy == failAt = 0
PgFinished == pg_pc \in {"returned", "raised"}
Collected == IF GPActive THEN all_playlists ELSE all_tracks
Expected ==
    IF GPActive THEN Flatten(listing) ELSE LikedRows(Flatten(listing))
Fetches == Len(SelectSeq(plog, LAMBDA e : e = "fetch"))

\* C1: for a listing of N items over P >= 1 pages that answers every fetch,
\* both loops end normally having collected exactly the N items in their
\* original order with exactly P page fetches, the last one being the fetch
\* of the page without a next-page indicator.
C1_PaginationComplete ==
    (RemoteHealthy /\ PgFinished) =>
        /\ pg_pc = "returned"
        /\ Collected = Expected
        /\ Fetches = Len(listing)

\* The same statement over the listings with at least one item: the case
\* the code handles.
PaginationCompleteNonEmpty == Total > 0 => C1_PaginationComplete

----------------------------------------------------------------------------
(* A lone AdaptiveRateLimiter under any sequence of at most MaxUpdates     *)
(* update() calls.  Delays are durations: the constructions are those with *)
(* 0 <= min_delay <= initial_delay <= max_delay.                           *)

MaxUpdates == 12

\* <<initial_delay, min_delay, max_delay>> in ms; the first is the default.
LimiterParams ==
    {<<INITIAL_DELAY, MIN_DELAY, MAX_DELAY>>, <<105, 100, 150>>,
     <<0, 0, 1000>>, <<500, 500, 500>>}

InitLimiter ==
    /\ op = "AdaptiveRateLimiter"
    /\ \E p \in LimiterParams : rate_limiter = AdaptiveRateLimiter(p[1], p[2], p[3])
    /\ updates = 0
    /\ playlist_df = <<>> /\ trackResp = <<>> /\ pt_pc = "idle" /\ pt_i = 0
    /\ tracks_dfs = <<>> /\ skipped_playlists = <<>>
    /\ total_tracks = 0 /\ tlog = <<>> /\ pt_result = <<>>
    /\ PgIdle
    /\ PaIdle
    /\ PlIdle
    /\ SyIdle
    /\ MuIdle
    /\ CaIdle
    /\ LgIdle
    /\ BsIdle

\* update(True, response_time)
RL_Success ==
    /\ op = "AdaptiveRateLimiter" /\ updates < MaxUpdates
    /\ \E response_time \in ResponseTimes :
          rate_limiter' = Update(rate_limiter, TRUE, response_time)
    /\ updates' = updates + 1
    /\ UNCHANGED <<playlist_df, trackResp, pt_pc, pt_i, tracks_dfs, skipped_playlists,
                   total_tracks, tlog, pt_result>>
    /\ UNCHANGED restPt

\* update(False, 0)
RL_Failure ==
    /\ op = "AdaptiveRateLimiter" /\ updates < MaxUpdates
    /\ rate_limiter' = Update(rate_limiter, FALSE, 0)
    /\ updates' = updates + 1
    /\ UNCHANGED <<playlist_df, trackResp, pt_pc, pt_i, tracks_dfs, skipped_playlists,
                   total_tracks, tlog, pt_result>>
    /\ UNCHANGED restPt

NextLimiter == RL_Success \/ RL_Failure

SpecLimiter == InitLimiter /\ [][NextLimiter]_vars

\* C6: constructed with min_delay <= initial_delay <= max_delay, the limiter
\* keeps min_delay <= current_delay <= max_delay after any sequence of
\* update(success, response_time) calls.
C6_DelayWithinBounds ==
    /\ rate_limiter.min_delay <= rate_limiter.current_delay
    /\ rate_limiter.current_delay <= rate_limiter.max_delay

\* C6: a failure has just been capped at max_delay, above min_delay.
C6_Witness ==
    /\ op = "AdaptiveRateLimiter" /\ updates > 0
    /\ rate_limiter.error_count > 0
    /\ rate_limiter.current_delay = rate_limiter.max_delay
    /\ rate_limiter.min_delay < rate_limiter.max_delay
    /\ Len(rate_limiter.response_times) >= MIN_SAMPLES

----------------------------------------------------------------------------
(* pull_tracks on its own.  Two families of inputs: one playlist whose     *)
(* page holds any sequence of at most MaxNormItems item shapes, and up to  *)
(* MaxPlaylists playlists whose answers are drawn from Answers.            *)

MaxNormItems == 2
MaxPlaylists == 3

NoArtist == [kind |-> "nondict", id |-> Absent, name |-> Absent]
NoTrack(kind) ==
    [kind |-> kind, type |-> "absent", id |-> Absent, name |-> Absent,
     artists |-> "absent", first |-> NoArtist]
NullItem == [kind |-> "null", track |-> NoTrack("absent")]
NonDictItem == [kind |-> "nondict", track |-> NoTrack("absent")]
Episode(t) == Item(Track("episode", Val(t), Val(t), "list", Artist(Val(t), Val(t))))

\* The shapes of a playlist item: well-formed tracks (also with a null id, as
\* a local file has, or without a "type" key) and one shape per defect.
ItemShapes ==
    {ValidItem(1, 1), ValidItem(2, 2), ValidItem(3, 1),
     Item(Track("track", Null, Val(4), "list", Artist(Null, Val(4)))),
     Item(Track("track", Val(5), Null, "list", Artist(Val(5), Null))),
     Item(Track("absent", Val(6), Val(6), "list", Artist(Val(6), Val(6)))),
     NullItem, NonDictItem,
     Item(NoTrack("absent")), Item(NoTrack("null")), Item(NoTrack("nondict")),
     Episode(1), Episode(7),
     Item(Track("episode", Val(7), Val(7), "empty", NoArtist)),
     Item(Track("track", Val(1), Val(1), "absent", NoArtist)),
     Item(Track("track", Val(1), Val(1), "null", NoArtist)),
     Item(Track("track", Val(1), Val(1), "empty", NoArtist)),
     Item(Track("track", Val(1), Val(1), "nonlist", NoArtist)),
     Item(Track("track", Absent, Val(1), "list", Artist(Val(1), Val(1)))),
     Item(Track("track", Val(1), Absent, "list", Artist(Val(1), Val(1)))),
     Item(Track("track", Val(1), Val(1), "list", NoArtist)),
     Item(Track("track", Val(1), Val(1), "list", Artist(Absent, Val(1)))),
     Item(Track("track", Val(1), Val(1), "list", Artist(Val(1), Absent)))}

\* The answers of playlist_tracks(playlist_id).
Raise == [kind |-> "raise", items |-> <<>>]
NoData == [kind |-> "none", items |-> <<>>]
NoItemsKey == [kind |-> "noitems", items |-> <<>>]
ItemsNull == [kind |-> "items_null", items |-> <<>>]
PageOf(items) == [kind |-> "page", items |-> items]
\* A listing of several pages: playlist_tracks answers with the first page,
\* `more` holds the items of the pages its "next" link leads to.
PagedAnswer(items, more) == [kind |-> "page", items |-> items, more |-> more]
MoreOf(resp) == IF "more" \in DOMAIN resp THEN resp.more ELSE <<>>

Answers ==
    {Raise, NoData, NoItemsKey, ItemsNull, PageOf(<<>>),
     PageOf(<<ValidItem(1, 1)>>), PageOf(<<Episode(7), NullItem>>),
     PageOf(<<ValidItem(2, 2), Episode(7), ValidItem(1, 1), ValidItem(2, 2)>>),
     PagedAnswer(<<ValidItem(1, 1)>>, <<Episode(7), ValidItem(8, 2)>>)}

SeqsUpTo(S, n) == UNION {[1..k -> S] : k \in 0..n}

PtStart ==
    /\ pt_pc = "call" /\ pt_i = 0 /\ tracks_dfs = <<>> /\ skipped_playlists = <<>>
    /\ rate_limiter = AdaptiveRateLimiter(INITIAL_DELAY, MIN_DELAY, MAX_DELAY)
    /\ total_tracks = 0 /\ tlog = <<>> /\ pt_result = <<>> /\ updates = 0

InitTracks ==
    /\ op = "pull_tracks"
    /\ \/ /\ playlist_df = PlaylistItems(1)
          /\ \E items \in SeqsUpTo(ItemShapes, MaxNormItems) :
                trackResp = <<PageOf(items)>>
       \/ \E n \in 0..MaxPlaylists :
             /\ playlist_df = PlaylistItems(n)
             /\ trackResp \in [1..n -> Answers]
    /\ PtStart
    /\ PgIdle
    /\ PaIdle
    /\ PlIdle
    /\ SyIdle
    /\ MuIdle
    /\ CaIdle
    /\ LgIdle
    /\ BsIdle

NextTracks == PT_Call \/ PT_Loop \/ PT_Return

SpecTracks == InitTracks /\ [][NextTracks]_vars

\* The playlists the loop has dealt with, and what it was answered.
Done(i) == i \in 1..Len(playlist_df) /\ i <= pt_i
Answer(i) == trackResp[playlist_df[i].id]
RowsOf(table, playlist_id) == SelectSeq(table, LAMBDA r : r.playlist_id = playlist_id)
SkippedAs(i, reason) ==
    Len(SelectSeq(skipped_playlists,
                  LAMBDA k : k = Skip(playlist_df[i], reason)))
Events(e, i, d) ==
    Len(SelectSeq(tlog, LAMBDA x : x = Ev(e, playlist_df[i].id, d)))

\* The rejection rules in the words of the specification.  A value that is not
\* a dict counts as an absent record, a value that is not a list as a missing
\* artist list; "missing" is "the key is absent".
RuleApplies(item) ==
    \/ item.kind # "dict" \/ item.track.kind # "dict"
    \/ item.track.type = "episode"
    \/ item.track.artists # "list"
    \/ item.track.id.st = "absent" \/ item.track.name.st = "absent"
    \/ item.track.first.kind # "dict"
    \/ item.track.first.id.st = "absent" \/ item.track.first.name.st = "absent"
Accepted(items) == SelectSeq(items, LAMBDA it : ~RuleApplies(it))

\* C3: of the items pull_tracks was answered for a playlist, those to which
\* no rejection rule applies are the rows of that playlist in the output, one
\* row each and in the items' order; an item to which a rule applies has no row.
C3_RowIffNoRuleApplies ==
    pt_pc = "returned" =>
        \A i \in 1..Len(playlist_df) :
            Answer(i).kind = "page" =>
                RowsOf(pt_result, playlist_df[i].id)
                    = [k \in 1..Len(Accepted(Answer(i).items)) |->
                          TrackRow(Accepted(Answer(i).items)[k], playlist_df[i].id)]

\* C3: a page mixing an accepted and a rejected item has been returned.
C3_Witness ==
    /\ pt_pc = "returned"
    /\ \E i \in 1..Len(playlist_df) :
          /\ Answer(i).kind = "page"
          /\ \E a, b \in 1..Len(Answer(i).items) :
                RuleApplies(Answer(i).items[a]) /\ ~RuleApplies(Answer(i).items[b])
          /\ Len(RowsOf(pt_result, playlist_df[i].id)) = 1

AllRejected(i) ==
    /\ Answer(i).kind = "page"
    /\ \A k \in 1..Len(Answer(i).items) : RuleApplies(Answer(i).items[k])

\* C8: a playlist whose every item is rejected has no row in the output, is in
\* the skipped list once with the reason "No valid music tracks", and is no
\* fetch error: the limiter was fed one success and no failure for it, and
\* pull_tracks goes on to return.
C8_AllRejectedIsSkipped ==
    \A i \in 1..Len(playlist_df) :
        (Done(i) /\ AllRejected(i)) =>
            /\ RowsOf(Flatten(tracks_dfs), playlist_df[i].id) = <<>>
            /\ pt_pc = "returned" => RowsOf(pt_result, playlist_df[i].id) = <<>>
            /\ SkippedAs(i, "No valid music tracks") = 1
            /\ Events("update", i, 1) = 1
            /\ Events("update", i, 0) = 0
            /\ rate_limiter.error_count = 0 \/ i < pt_i

\* C8: pull_tracks returned rows although one playlist held rejected items only.
C8_Witness ==
    /\ pt_pc = "returned" /\ pt_result # <<>>
    /\ \E i \in 1..Len(playlist_df) : AllRejected(i) /\ Answer(i).items # <<>>

Failing(i) == Answer(i).kind = "raise"
ValidOf(i) ==
    IF Answer(i).kind = "page" THEN ValidRows(Answer(i).items, playlist_df[i].id)
                               ELSE <<>>
RECURSIVE ValidOfAllFrom(_)
ValidOfAllFrom(i) ==
    IF i > Len(playlist_df) THEN <<>>
    ELSE (IF Failing(i) THEN <<>> ELSE ValidOf(i)) \o ValidOfAllFrom(i + 1)

\* C10: a playlist whose track fetch raises is in the skipped list with the
\* error as reason and has fed the limiter one failure; the loop goes on, every
\* playlist is fetched once, and the output is the valid tracks of the
\* playlists that did not fail, in order.
C10_FailureIsSkippedAndLoopGoesOn ==
    /\ \A i \in 1..Len(playlist_df) :
          (Done(i) /\ Failing(i)) =>
              /\ SkippedAs(i, "FetchError") = 1
              /\ Events("update", i, 0) = 1
              /\ Events("update", i, 1) = 0
    /\ pt_pc = "returned" =>
          /\ \A i \in 1..Len(playlist_df) : Events("fetch", i, 0) = 1
          /\ pt_result = ValidOfAllFrom(1)

\* C10: a failing playlist came before one whose tracks are in the output.
C10_Witness ==
    /\ pt_pc = "returned"
    /\ \E i, j \in 1..Len(playlist_df) :
          /\ i < j /\ Failing(i)
          /\ RowsOf(pt_result, playlist_df[j].id) # <<>>

----------------------------------------------------------------------------
(* pull_artist_and_genre on its own: a track table that names m artists,   *)
(* each by `refs` tracks (and two tracks without an artist id when refs >  *)
(* 1), any fate of each request, one defective artist record at most.      *)

MaxArtists == 101
MaxRefs == 2

ArtistCounts ==
    {m \in 0..MaxArtists : m < 3 \/ m % BATCH_SIZE \in {0, 1, BATCH_SIZE - 1}}

TrackOf(j, a) ==
    [artist_name |-> a, artist_id |-> a, track_name |-> Val(j), track_id |-> Val(j),
     playlist_id |-> 1]
TracksFor(m, refs) ==
    (IF refs > 1 THEN <<TrackOf(m * refs + 1, Null)>> ELSE <<>>)
    \o [j \in 1..(m * refs) |-> TrackOf(j, Val(((j - 1) % m) + 1))]
    \o (IF refs > 1 THEN <<TrackOf(m * refs + 2, Null)>> ELSE <<>>)

DefectChoices(m) ==
    {<<>>} \cup (IF m = 0 THEN {}
                 ELSE {1 :> "null", m :> "noname", 1 :> "badgenres", m :> "noid"})

PaStart ==
    /\ pa_pc = "call" /\ unique_artist_ids = <<>> /\ max_workers = 0
    /\ futures = <<>> /\ processed_artists_data = <<>> /\ alog = <<>>
    /\ pa_result = <<>>

InitArtists ==
    /\ op = "pull_artist_and_genre"
    /\ \E m \in ArtistCounts :
          /\ \E refs \in 1..MaxRefs : tracks_arg = TracksFor(m, refs)
          /\ chunkResp \in [1..CeilDiv(m, BATCH_SIZE) -> {"ok", "raise", "invalid"}]
          /\ artistDefect \in DefectChoices(m)
    /\ PaStart
    /\ PgIdle
    /\ PtIdle
    /\ PlIdle
    /\ SyIdle
    /\ MuIdle
    /\ CaIdle
    /\ LgIdle
    /\ BsIdle

NextArtists ==
    PA_Call \/ PA_Submit \/ PA_WorkerStart \/ PA_WorkerFinish \/ PA_Collect \/ PA_Return

SpecArtists == InitArtists /\ [][NextArtists]_vars

\* The de-duplicated non-null artist ids of the argument, the requests that
\* failed, and the ids the returned table holds.
InputIds == {tracks_arg[j].artist_id.v :
                j \in {i \in 1..Len(tracks_arg) : tracks_arg[i].artist_id.st = "value"}}
\* Requests are issued in the order of submission: the c-th call is batch c.
IndexOfCall(c) == c
FailedCalls == {c \in 1..Len(alog) : ChunkAnswer(IndexOfCall(c)) # "ok"}
IdsOfFailedCalls == UNION {Range(alog[c]) : c \in FailedCalls}
ReturnedIds == {pa_result[j].artist_id.v : j \in 1..Len(pa_result)}
Occurrences(a) ==
    SumSeq([c \in 1..Len(alog) |->
               Cardinality({j \in 1..Len(alog[c]) : alog[c][j] = a})])
\* The ids whose own record the remote returned unusable (lines 333, 340).
RejectedIds == {a \in InputIds : ArtistTuple(ArtistObj(a)) = <<>>}

\* The calls, their sizes and the one call of every id.
ChunkingHolds ==
    /\ Len(alog) = CeilDiv(Cardinality(InputIds), BATCH_SIZE)
    /\ \A c \in 1..Len(alog) : Len(alog[c]) <= BATCH_SIZE
    /\ \A a \in InputIds : Occurrences(a) = 1

\* C2 as stated: ceil(M/50) calls of at most 50 ids, every unique id in
\* exactly one call, and the returned ids are the de-duplicated input ids
\* minus the ids of the failed chunks.
C2_ChunkingAndReturnedIds ==
    pa_pc = "returned" =>
        /\ ChunkingHolds
        /\ ReturnedIds = InputIds \ IdsOfFailedCalls

\* C2 as amended: the returned ids are the de-duplicated input ids minus the
\* ids of the failed chunks and minus the ids whose own record came back
\* None, not a dict, or without an id or a name.
C2_ChunkingAndReturnedIdsAmended ==
    pa_pc = "returned" =>
        /\ ChunkingHolds
        /\ ReturnedIds = (InputIds \ IdsOfFailedCalls) \ RejectedIds

\* C2: three calls were made for 101 artists named twice each, one call
\* failed and one record of an answered call was rejected.
C2_Witness ==
    /\ pa_pc = "returned"
    /\ Len(alog) = 3 /\ Len(tracks_arg) > 2 * Cardinality(InputIds)
    /\ FailedCalls # {} /\ ReturnedIds # {}
    /\ RejectedIds \ IdsOfFailedCalls # {}

\* The tuples of the usable records of batch k, as the remote holds them.
RecordsOfChunk(k) ==
    ArtistTuples([j \in 1..Len(Batch(unique_artist_ids, k)) |->
                     ArtistObj(Batch(unique_artist_ids, k)[j])])
ArtistsUnderWay == op = "pull_artist_and_genre" /\ pa_pc # "returned"
\* The main thread or a worker of the pool can take a step.
CanStep ==
    \/ pa_pc \in {"call", "submit"}
    \/ /\ pa_pc = "collect"
       /\ \/ InState("queued") # {} /\ Cardinality(InState("running")) < max_workers
          \/ InState("running") # {}
          \/ InState("done") # {}
          \/ InState("consumed") = 1..Len(futures)

\* C11: whichever requests raise or are answered without a list of artists,
\* pull_artist_and_genre is never stuck or aborted before its return; when it
\* returns, every chunk has been requested, the table holds the records of
\* every chunk that was answered, and no record of a chunk that failed.
C11_FailedChunksAreSkipped ==
    /\ ArtistsUnderWay => CanStep
    /\ (pa_pc = "returned" /\ unique_artist_ids # <<>>) =>
          /\ Len(alog) = NBatches(unique_artist_ids)
          /\ \A k \in 1..NBatches(unique_artist_ids) :
                IF ChunkAnswer(k) = "ok"
                THEN Range(RecordsOfChunk(k)) \subseteq Range(pa_result)
                ELSE Range(Batch(unique_artist_ids, k)) \cap ReturnedIds = {}

\* C11: one request raised, another was answered without artists, and the
\* returned table holds the records of the third.
C11_Witness ==
    /\ op = "pull_artist_and_genre" /\ pa_pc = "returned"
    /\ \E i, j, k \in 1..Len(alog) :
          /\ ChunkAnswer(i) = "raise" /\ ChunkAnswer(j) = "invalid"
          /\ ChunkAnswer(k) = "ok" /\ RecordsOfChunk(k) # <<>>
          /\ Range(RecordsOfChunk(k)) \subseteq Range(pa_result)

----------------------------------------------------------------------------
(* process_library_data, called twice against the same remote: up to       *)
(* MaxLibPlaylists playlists, each answered by a failure, an empty page, a *)
(* small page or a page naming BATCH_SIZE + 1 artists (two chunks).        *)

MaxLibPlaylists == 2

SmallPage == PageOf(<<ValidItem(1, 1), ValidItem(2, 2), Episode(7), ValidItem(3, 3)>>)
BulkPage == PageOf([j \in 1..(BATCH_SIZE + 1) |-> ValidItem(100 + j, j)])
LibAnswers == {Raise, PageOf(<<>>), SmallPage, BulkPage}

\* The fate of the two get-artists requests and the defective artist record.
ArtistRemotes ==
    {[chunk |-> <<"ok", "ok">>, defect |-> <<>>],
     [chunk |-> <<"raise", "ok">>, defect |-> <<>>],
     [chunk |-> <<"ok", "raise">>, defect |-> <<>>],
     [chunk |-> <<"ok", "ok">>, defect |-> 1 :> "null"]}

InitLibrary ==
    /\ op = "process_library_data"
    /\ \E n \in 0..MaxLibPlaylists :
          /\ listing \in {Paged(PlaylistItems(n), <<n>>)}
                         \cup (IF n > 1 THEN {Paged(PlaylistItems(n), <<1, n - 1>>)}
                                        ELSE {})
          /\ trackResp \in [1..n -> LibAnswers]
    /\ failAt \in {0, 1}
    /\ \E r \in ArtistRemotes : chunkResp = r.chunk /\ artistDefect = r.defect
    \* line 521: get_playlists(_sp) is called with no filter
    /\ user_filter = "" /\ collaborative_filter = "None" /\ name_prefix = <<>>
    /\ pg_pc = "idle" /\ page = 0
    /\ all_playlists = <<>> /\ all_tracks = <<>> /\ processed = 0
    /\ plog = <<>> /\ pg_result = <<>> /\ error = ""
    /\ playlist_df = <<>> /\ pt_pc = "idle" /\ pt_i = 0
    /\ tracks_dfs = <<>> /\ skipped_playlists = <<>>
    /\ rate_limiter = AdaptiveRateLimiter(INITIAL_DELAY, MIN_DELAY, MAX_DELAY)
    /\ total_tracks = 0 /\ tlog = <<>> /\ pt_result = <<>> /\ updates = 0
    /\ tracks_arg = <<>> /\ pa_pc = "idle" /\ unique_artist_ids = <<>>
    /\ max_workers = 0 /\ futures = <<>> /\ processed_artists_data = <<>>
    /\ alog = <<>> /\ pa_result = <<>>
    /\ pl_pc = "call" /\ tracks_df = <<>> /\ combined_df = <<>> /\ run = 1
    /\ first_call = [outcome |-> "", error |-> "", rows |-> <<>>, artists |-> <<>>]
    /\ SyIdle
    /\ MuIdle
    /\ CaIdle
    /\ LgIdle
    /\ BsStart

NextLibrary ==
    \/ PL_Call \/ PL_Raise \/ PL_Tracks \/ PL_Artists \/ PL_Merge \/ PL_Again
    \/ GP_Call \/ GP_Loop \/ GP_Filter
    \/ PT_Call \/ PT_Loop \/ PT_Return
    \/ PA_Call \/ PA_Submit \/ PA_WorkerStart \/ PA_WorkerFinish \/ PA_Collect
    \/ PA_Return
    \/ BS_Load

SpecLibrary == InitLibrary /\ [][NextLibrary]_vars

\* The artist rows of the table the merge was given that carry the id of
\* track row t, the rows of the combined table made of track row t, and the
\* genres the remote holds for the artist of t.
ArtistRowsOf(t) == {j \in 1..Len(pa_result) : pa_result[j].artist_id = t.artist_id}
CombinedRowsOf(t) ==
    {r \in 1..Len(combined_df) :
        /\ combined_df[r].track_id = t.track_id
        /\ combined_df[r].playlist_id = t.playlist_id}
RemoteGenres(t) == GenresOf(t.artist_id.v)
LibraryReturned == op = "process_library_data" /\ pl_pc = "returned"

C5_SecondRunSameRows ==
    (op = "process_library_data" /\ run = 2 /\ pl_pc \in {"returned", "raised"}) =>
        /\ pl_pc = first_call.outcome
        /\ error = first_call.error
        /\ Range(combined_df) = Range(first_call.rows)

\* C5: both runs returned rows, the artist requests of the two runs having
\* completed in different orders.
C5_Witness ==
    /\ op = "process_library_data" /\ run = 2 /\ pl_pc = "returned"
    /\ combined_df # <<>>
    /\ Len(pa_result) > BATCH_SIZE
    /\ pa_result # first_call.artists
    /\ Range(pa_result) = Range(first_call.artists)

\* What the caller of process_library_data observes: how the call ended, the
\* exception if it raised, and the rows of the returned table.
Observation == [outcome |-> pl_pc, error |-> error, rows |-> combined_df]
LibraryFinished == op = "process_library_data" /\ pl_pc \in {"returned", "raised"}
HasPlaylists == Len(Flatten(listing)) > 0
EveryTrackFetchFailed ==
    HasPlaylists /\ \A p \in DOMAIN trackResp : trackResp[p] = Raise
NoPlaylistHasTracks ==
    HasPlaylists /\ \A p \in DOMAIN trackResp : trackResp[p] = PageOf(<<>>)
EmptyLibraryObservation == [outcome |-> "returned", error |-> "", rows |-> <<>>]

\* What the caller observes for a library whose playlists hold no track.
EmptyLibraryIsObservedAsEmpty ==
    (LibraryFinished /\ failAt = 0 /\ NoPlaylistHasTracks) =>
        Observation = EmptyLibraryObservation

\* C9: when every playlist track fetch failed, the aggregation returns an
\* empty result and the caller observes something other than what it observes
\* for a library whose playlists hold no track.
C9_AllFailedIsDistinctFromEmpty ==
    (LibraryFinished /\ failAt = 0 /\ EveryTrackFetchFailed) =>
        /\ combined_df = <<>>
        /\ Observation # EmptyLibraryObservation

----------------------------------------------------------------------------
(* sync_playlist_with_liked_songs: a source playlist of S tracks, the      *)
(* liked songs in pages of LIKED_LIMIT, a destination given or not, any    *)
(* failing add-call.                                                       *)

MaxSyncTracks == 250
MaxAddCalls == 3
LIKED_LIMIT == 50       \* line 541: current_user_saved_tracks(limit=50)

SyncSizes ==
    {n \in 0..MaxSyncTracks :
        n < 3 \/ n = MaxSyncTracks \/ n % ADD_BATCH \in {0, 1, ADD_BATCH - 1}}
Ids(n) == [i \in 1..n |-> Val(i)]
LikedPages(n) ==
    Paged(LikedItems(n),
          [k \in 1..Max(1, CeilDiv(n, LIKED_LIMIT)) |->
              Min(LIKED_LIMIT, n - (k - 1) * LIKED_LIMIT)])

Destinations ==
    {[id |-> 0, user_id |-> 7, name |-> 8], [id |-> 0, user_id |-> 0, name |-> 8],
     [id |-> 5, user_id |-> 0, name |-> 0]}

InitSync ==
    /\ op = "sync_playlist_with_liked_songs"
    /\ \E n \in SyncSizes : source \in {[fails |-> FALSE, ids |-> Ids(n)]}
                                       \cup (IF n = 0
                                             THEN {[fails |-> TRUE, ids |-> <<>>]}
                                             ELSE {})
    /\ listing \in {LikedPages(MaxSyncTracks), LikedPages(ADD_BATCH), LikedPages(1),
                   LikedPages(0)}
    /\ failAt \in {0, 2}
    /\ dest \in Destinations
    /\ dest_tracks \in IF dest.id = 0 THEN {<<>>} ELSE {<<>>, Ids(2), <<Val(2)>>}
    /\ addFailAt \in 0..MaxAddCalls
    /\ sy_pc = "call"
    /\ SyStart
    /\ user_filter = "" /\ collaborative_filter = "None" /\ name_prefix = <<>>
    /\ pg_pc = "idle" /\ page = 0
    /\ all_playlists = <<>> /\ all_tracks = <<>> /\ processed = 0
    /\ plog = <<>> /\ pg_result = <<>> /\ error = ""
    /\ PtIdle
    /\ PaIdle
    /\ PlIdle
    /\ MuIdle
    /\ CaIdle
    /\ LgIdle
    /\ BsIdle

NextSync ==
    \/ SY_Source \/ SY_Liked \/ SY_Dest \/ SY_Add \/ SY_Return
    \/ LS_Call \/ LS_Loop \/ LS_Return

SpecSync == InitSync /\ [][NextSync]_vars

SyFinished == op = "sync_playlist_with_liked_songs" /\ sy_pc \in {"returned", "raised"}
NeededAddCalls == CeilDiv(Len(tracks_to_add), ADD_BATCH)

\* C7: the add loop over T track ids issues its add-calls in list order, the
\* c-th one carrying ids (c-1)*100+1 .. min(c*100, T), hence 100 ids each
\* except a shorter last one; it returns after exactly ceil(T/100) calls; if
\* add-call k fails, the sync ends with that error, k being the last add-call.
C7_AddCallsInBatchesOf100 ==
    op = "sync_playlist_with_liked_songs" =>
        LET T == Len(tracks_to_add)
        IN /\ \A c \in 1..Len(AddCalls) :
                 AddCalls[c].ids =
                    SubSeq(tracks_to_add, (c - 1) * 100 + 1, Min(c * 100, T))
           /\ Len(AddCalls) <= NeededAddCalls
           /\ sy_pc = "returned" =>
                 /\ Len(AddCalls) = NeededAddCalls
                 /\ addFailAt \notin 1..NeededAddCalls
           /\ addFailAt \in 1..Len(AddCalls) =>
                 /\ Len(AddCalls) = addFailAt
                 /\ sy_pc = "raised" /\ sy_error = "AddError"

\* C7: 250 ids were to be added and the second add-call failed: two calls of
\* 100 ids were issued and the sync raised.
C7_Witness ==
    /\ SyFinished /\ Len(tracks_to_add) = 250 /\ addFailAt = 2
    /\ Len(AddCalls) = 2 /\ Len(AddCalls[1].ids) = 100 /\ Len(AddCalls[2].ids) = 100
    /\ sy_pc = "raised"

\* The ids passed to add-calls so far, the ids the remote accepted, and the
\* destination playlist as it was before the sync.
AddedIds == UNION {Range(AddCalls[c].ids) : c \in 1..Len(AddCalls)}
AcceptedCalls == SelectSeq([c \in 1..Len(AddCalls) |-> [c |-> c, ids |-> AddCalls[c].ids]],
                           LAMBDA x : x.c # addFailAt)
NumAccepted == SumSeq([c \in 1..Len(AcceptedCalls) |-> Len(AcceptedCalls[c].ids)])
DestBefore == SubSeq(dest_tracks, 1, Len(dest_tracks) - NumAccepted)
RemoteLikedIds == {Flatten(listing)[k].track.id : k \in 1..Len(Flatten(listing))}
WantedIds ==
    (Range(source.ids) \cap RemoteLikedIds)
        \ (IF dest.id # 0 THEN Range(DestBefore) ELSE {})

\* C12: no id outside (source tracks /\ liked ids) minus the tracks of a
\* pre-existing destination is ever passed to an add-call, and a sync that
\* returns has passed exactly that set.
C12_AddedIsSourceAndLikedMinusDest ==
    op = "sync_playlist_with_liked_songs" =>
        /\ AddedIds \subseteq WantedIds
        /\ sy_pc = "returned" => AddedIds = WantedIds

\* C12: a sync returned having added some tracks, left out a source track
\* that is not liked and left out a liked source track the destination had.
C12_Witness ==
    /\ op = "sync_playlist_with_liked_songs" /\ sy_pc = "returned"
    /\ AddedIds # {} /\ dest.id # 0
    /\ Range(source.ids) \ RemoteLikedIds # {}
    /\ Range(source.ids) \cap RemoteLikedIds \cap Range(DestBefore) # {}

CreateCalls == SelectSeq(mutations, LAMBDA m : m.call = "create")

\* C13: without a destination id, a sync that gets to its add loop has issued
\* exactly one create-playlist call, before every add-call, and returns the
\* id of the created playlist; with a destination id no create-playlist call
\* is ever issued and that id is returned.
C13_CreateOnceBeforeAdding ==
    op = "sync_playlist_with_liked_songs" =>
        IF dest.id = 0
        THEN /\ Len(CreateCalls) <= 1
             /\ sy_pc \in {"add", "returned"} \/ AddCalls # <<>> =>
                   /\ Len(CreateCalls) = 1
                   /\ mutations[1].call = "create"
             /\ sy_pc = "returned" => sy_result = CREATED_ID
        ELSE /\ CreateCalls = <<>>
             /\ sy_pc = "returned" => sy_result = dest.id

\* C13: a sync without a destination id returned after a create-playlist call
\* followed by two add-calls.
C13_Witness ==
    /\ op = "sync_playlist_with_liked_songs" /\ sy_pc = "returned" /\ dest.id = 0
    /\ Len(mutations) = 3 /\ mutations[1].call = "create" /\ Len(AddCalls) = 2
    /\ sy_result = CREATED_ID

----------------------------------------------------------------------------
(* The operations under every kind of client handle.  The two playlist     *)
(* mutations are run with a usable handle too; the operations modelled     *)
(* above are entered with a handle that is None or no longer authorized.   *)

MaxSampleTracks == 101
MaxHandlePlaylists == 2

Statuses == {0, 200, 201, 204, 400, 401, 403, 404, 429, 500}
SampleSizes ==
    {n \in 0..MaxSampleTracks : n < 2 \/ n % ADD_BATCH \in {0, 1, ADD_BATCH - 1}}
PublicOperations ==
    {"get_playlists", "get_liked_songs", "pull_tracks", "pull_artist_and_genre",
     "process_library_data", "sync_playlist_with_liked_songs",
     "set_playlist_public_status", "create_sample_playlist"}
Mutations == {"set_playlist_public_status", "create_sample_playlist"}

InitClient ==
    /\ op \in PublicOperations
    /\ sp_handle \in IF op \in Mutations THEN {"valid", "none", "expired"}
                                         ELSE {"none", "expired"}
    \* get_playlists / get_liked_songs
    /\ listing = <<<<>>>> /\ failAt = 0
    /\ user_filter = "" /\ collaborative_filter = "None" /\ name_prefix = <<>>
    /\ pg_pc = (IF op \in {"get_playlists", "get_liked_songs"} THEN "call" ELSE "idle")
    /\ page = 0 /\ all_playlists = <<>> /\ all_tracks = <<>> /\ processed = 0
    /\ plog = <<>> /\ pg_result = <<>> /\ error = ""
    \* pull_tracks
    /\ IF op = "pull_tracks"
       THEN /\ \E n \in 0..MaxHandlePlaylists :
                  /\ playlist_df = PlaylistItems(n)
                  /\ trackResp = [i \in 1..n |-> SmallPage]
            /\ PtStart
       ELSE PtIdle
    \* pull_artist_and_genre
    /\ IF op = "pull_artist_and_genre"
       THEN /\ \E m \in {1, BATCH_SIZE, BATCH_SIZE + 1} :
                  /\ tracks_arg = TracksFor(m, 1)
                  /\ chunkResp = [k \in 1..CeilDiv(m, BATCH_SIZE) |-> "ok"]
            /\ artistDefect = <<>>
            /\ PaStart
       ELSE PaIdle
    \* process_library_data
    /\ pl_pc = (IF op = "process_library_data" THEN "call" ELSE "idle")
    /\ tracks_df = <<>> /\ combined_df = <<>> /\ run = 1
    /\ first_call = [outcome |-> "", error |-> "", rows |-> <<>>, artists |-> <<>>]
    \* sync_playlist_with_liked_songs
    /\ source = [fails |-> FALSE, ids |-> IF op = "sync_playlist_with_liked_songs"
                                          THEN Ids(2) ELSE <<>>]
    /\ dest \in IF op = "sync_playlist_with_liked_songs" THEN Destinations
                ELSE {[id |-> 0, user_id |-> 0, name |-> 0]}
    /\ dest_tracks = <<>> /\ addFailAt = 0
    /\ sy_pc = (IF op = "sync_playlist_with_liked_songs" THEN "call" ELSE "idle")
    /\ SyStart
    \* set_playlist_public_status, create_sample_playlist
    /\ \E status \in Statuses, is_public \in BOOLEAN, n \in SampleSizes, f \in 0..2 :
          mu_arg = [status |-> IF op = "set_playlist_public_status" THEN status ELSE 0,
                    is_public |-> op = "set_playlist_public_status" /\ is_public,
                    track_ids |-> IF op = "create_sample_playlist" THEN Ids(n) ELSE <<>>,
                    failAt |-> IF op = "create_sample_playlist" THEN f ELSE 0]
    /\ mu_pc = (IF op \in Mutations THEN "call" ELSE "idle")
    /\ MuStart
    /\ CaIdle
    /\ LgIdle
    /\ BsIdle

NextClient ==
    \/ SS_Token \/ SS_Put \/ SS_Toast \/ CS_Create \/ CS_Add
    \/ GP_Call \/ LS_Call \/ PL_Call \/ PL_Raise \/ SY_Source
    \/ PT_Call \/ PT_Loop \/ PT_Return
    \/ PA_Call \/ PA_Submit \/ PA_WorkerStart \/ PA_WorkerFinish \/ PA_Collect
    \/ PA_Return

SpecClient == InitClient /\ [][NextClient]_vars

PutCalls == SelectSeq(remote_calls, LAMBDA c : c.call = "put")
SuccessStatuses == 200..299

\* C14: with a usable handle and an answered request, set_playlist_public_
\* status ends having issued exactly one update call and returned a boolean:
\* true for a 2xx response, false - and no exception - for any other.
C14_OneCallAndBooleanResult ==
    (/\ op = "set_playlist_public_status" /\ Usable /\ mu_arg.status # 0
     /\ mu_pc \in {"returned", "raised"}) =>
        /\ Len(PutCalls) = 1
        /\ mu_pc = "returned"
        /\ mu_result = IF response \in SuccessStatuses THEN "True" ELSE "False"

\* What does hold: one update call, no exception, nothing returned, and the
\* success toast for status 200 only.
SetStatusReturnsNothing ==
    (/\ op = "set_playlist_public_status" /\ Usable /\ mu_arg.status # 0
     /\ mu_pc \in {"returned", "raised"}) =>
        /\ Len(PutCalls) = 1
        /\ mu_pc = "returned" /\ mu_result = "None"
        /\ toast = "updated" <=> response = OK_STATUS

\* C15: no add-tracks call of create_sample_playlist or of the sync carries
\* more than 100 track ids.
C15_AddCallsCarryAtMost100 ==
    /\ \A c \in 1..Len(remote_calls) :
          remote_calls[c].call = "add" => remote_calls[c].n <= 100
    /\ \A c \in 1..Len(AddCalls) : Len(AddCalls[c].ids) <= 100

\* How the operation under way has ended, if it has, and the requests that
\* left the client (the reads of the sync's source playlist are not logged).
OpEnded ==
    CASE op \in {"get_playlists", "get_liked_songs"} -> pg_pc \in {"returned", "raised"}
      [] op = "pull_tracks" -> pt_pc = "returned"
      [] op = "pull_artist_and_genre" -> pa_pc = "returned"
      [] op = "process_library_data" -> pl_pc \in {"returned", "raised"}
      [] op = "sync_playlist_with_liked_songs" -> sy_pc \in {"returned", "raised"}
      [] op \in Mutations -> mu_pc \in {"returned", "raised"}
      [] OTHER -> FALSE
OpError ==
    CASE op \in {"get_playlists", "get_liked_songs", "process_library_data"} -> error
      [] op = "sync_playlist_with_liked_songs" -> sy_error
      [] op \in Mutations -> mu_error
      [] OTHER -> ""
RemoteRequests ==
    Len(remote_calls) + Len(mutations) + Len(alog)
    + Len(SelectSeq(plog, LAMBDA e : e = "fetch"))
    + Len(SelectSeq(tlog, LAMBDA e : e.e = "fetch"))
AuthErrors == {"AuthError", "SpotifyOauthError"}

\* C16: an operation entered with a handle that is None or no longer
\* authorized ends with an auth error, and no request has left the client.
C16_BadHandleIsAuthErrorBeforeAnyCall ==
    ~Usable =>
        /\ RemoteRequests = 0
        /\ OpEnded => OpError \in AuthErrors

\* What does hold: on a None handle no request leaves the client.
NoneHandleSendsNothing == sp_handle = "none" => RemoteRequests = 0

----------------------------------------------------------------------------
(* The cache under calls of two users of one server process, with any      *)
(* hashed argument, at any time.                                           *)

MaxCalls == 3
MaxTicks == 3
TICK == 1800            \* the clock advances by half a ttl

Handles == {"alice", "bob"}
ArgChoices == {1, 2}

\* A decorated function is called: the stored result is returned when the
\* key has a fresh entry, else the body runs and its result is stored.
CA_Call ==
    /\ op = "st.cache_data" /\ ncalls < MaxCalls
    /\ \E fn \in CachedFunctions, sp \in Handles, args \in ArgChoices :
          LET key == CacheKey(fn, sp, args)
              hit == key \in DOMAIN cache /\ Fresh(cache[key], Ttl(fn))
              value == IF hit THEN cache[key] ELSE Computed(fn, sp, args)
          IN /\ cache' = IF hit THEN cache ELSE (key :> value) @@ cache
             /\ last' = [fn |-> fn, sp |-> sp, args |-> HashedArgs(fn, args),
                         time |-> now, hit |-> hit, value |-> value]
    /\ ncalls' = ncalls + 1
    /\ UNCHANGED now
    /\ UNCHANGED restCa

\* Time passes
CA_Tick ==
    /\ op = "st.cache_data" /\ now < MaxTicks * TICK
    /\ now' = now + TICK
    /\ UNCHANGED <<cache, ncalls, last>>
    /\ UNCHANGED restCa

InitCache ==
    /\ op = "st.cache_data"
    /\ CaIdle
    /\ LgIdle
    /\ BsIdle
    /\ PgIdle
    /\ PtIdle
    /\ PaIdle
    /\ PlIdle
    /\ SyIdle
    /\ MuIdle

NextCache == CA_Call \/ CA_Tick

SpecCache == InitCache /\ [][NextCache]_vars

\* C17: a stored result is returned only to a call made with the client
\* handle and the arguments of the call that computed it.
C17_CacheKeyedByClientAndFilters ==
    (op = "st.cache_data" /\ last.hit) =>
        /\ last.value.fn = last.fn
        /\ last.value.owner = last.sp
        /\ last.value.args = last.args

\* What does hold: a stored result is returned only for the same function
\* and the same hashed arguments.
CacheKeyedByFunctionAndArguments ==
    (op = "st.cache_data" /\ last.hit) =>
        /\ last.value.fn = last.fn
        /\ last.value.args = last.args

\* C18: no stored result of the five cached functions is returned more than
\* one hour after it was computed.
C18_NothingServedAfterOneHour ==
    (op = "st.cache_data" /\ last.hit) => last.time - last.value.at <= 3600

\* What does hold: the three functions decorated with ttl=3600 never return
\* a result older than one hour.
TtlFunctionsServeWithinOneHour ==
    (op = "st.cache_data" /\ last.hit /\ Ttl(last.fn) # NO_TTL) =>
        last.time - last.value.at < TTL_SECONDS

----------------------------------------------------------------------------
(* The filters of get_playlists *)

Fetched == Flatten(listing)
PassesAll(x) == OwnerFilter(x) /\ CollaborativeFilter(x) /\ NameFilter(x)
FilterNo(k, df_playlists) ==
    IF k = 1 THEN SelectSeq(df_playlists, OwnerFilter)
    ELSE IF k = 2 THEN SelectSeq(df_playlists, CollaborativeFilter)
    ELSE SelectSeq(df_playlists, NameFilter)
Orders == {o \in [1..3 -> 1..3] : \A i, j \in 1..3 : i # j => o[i] # o[j]}
GetPlaylistsEnded ==
    op = "get_playlists" /\ RemoteHealthy /\ Usable /\ PgFinished

\* C19: get_playlists returns exactly the fetched playlists that pass every
\* supplied filter, in whichever order the three predicates are applied, and
\* an empty table - not an error - when no playlist was fetched.
C19_FiltersAreAConjunction ==
    GetPlaylistsEnded =>
        /\ pg_pc = "returned"
        /\ pg_result = SelectSeq(Fetched, PassesAll)
        /\ \A o \in Orders :
              pg_result = FilterNo(o[3], FilterNo(o[2], FilterNo(o[1], Fetched)))

\* What does hold: the same, when at least one playlist was fetched.
FiltersAreAConjunctionNonEmpty ==
    (GetPlaylistsEnded /\ Fetched # <<>>) =>
        /\ pg_pc = "returned"
        /\ pg_result = SelectSeq(Fetched, PassesAll)
        /\ \A o \in Orders :
              pg_result = FilterNo(o[3], FilterNo(o[2], FilterNo(o[1], Fetched)))

----------------------------------------------------------------------------
(* The pages of a playlist's track listing *)

\* The items of every page of the listing of playlist i
AllItemsOf(i) == Answer(i).items \o MoreOf(Answer(i))

\* C20: when pull_tracks has returned, every valid music track of every page
\* of the listing of a playlist whose fetch was answered is in the output,
\* tagged with the playlist's id.
C20_EveryPageIsRead ==
    (op = "pull_tracks" /\ pt_pc = "returned") =>
        \A i \in 1..Len(playlist_df) :
            Answer(i).kind = "page" =>
                \A k \in 1..Len(AllItemsOf(i)) :
                    ValidTrack(AllItemsOf(i)[k]) =>
                        In(TrackRow(AllItemsOf(i)[k], playlist_df[i].id), pt_result)

\* What does hold: the same for the items of the first page.
FirstPageIsRead ==
    (op = "pull_tracks" /\ pt_pc = "returned") =>
        \A i \in 1..Len(playlist_df) :
            Answer(i).kind = "page" =>
                \A k \in 1..Len(Answer(i).items) :
                    ValidTrack(Answer(i).items[k]) =>
                        In(TrackRow(Answer(i).items[k], playlist_df[i].id), pt_result)

----------------------------------------------------------------------------
(* SpecTracks: the rows of the returned track table and their track ids.   *)

\* C21: no two rows of the track table returned by pull_tracks share a
\* track_id, whether the track occurs in several playlists or several times
\* in one playlist.
C21_TrackIdsAreUnique ==
    (op = "pull_tracks" /\ pt_pc = "returned") =>
        \A i, j \in 1..Len(pt_result) :
            i # j => pt_result[i].track_id # pt_result[j].track_id

\* What does hold: the table has one row per valid item of the answered
\* first pages, occurrence by occurrence.
OneRowPerValidItem ==
    (op = "pull_tracks" /\ pt_pc = "returned") =>
        Len(pt_result) =
            SumSeq([i \in 1..Len(playlist_df) |->
                        IF Answer(i).kind = "page"
                        THEN Len(SelectSeq(Answer(i).items, ValidTrack))
                        ELSE 0])

----------------------------------------------------------------------------
(* SpecLimiterFair: the lone limiter, updates being made as long as the    *)
(* bound on their number allows.                                           *)

SpecLimiterFair == InitLimiter /\ [][NextLimiter]_vars /\ WF_vars(NextLimiter)

FailureGrowsDelay ==
    /\ [][RL_Failure =>
            /\ rate_limiter'.current_delay =
                   Min(rate_limiter.max_delay, (rate_limiter.current_delay * 3) \div 2)
            /\ rate_limiter'.current_delay >= rate_limiter.current_delay]_vars
    /\ [][(RL_Failure /\ rate_limiter.current_delay = rate_limiter.max_delay) =>
            rate_limiter'.current_delay = rate_limiter.max_delay]_vars

\* What does hold: from a delay above zero a run of failures reaches max_delay.
PositiveDelayReachesMaxDelay ==
    (rate_limiter.error_count >= 1 /\ updates + updates <= MaxUpdates /\ rate_limiter.current_delay > 0)
        ~> (\/ rate_limiter.error_count = 0
            \/ rate_limiter.current_delay = rate_limiter.max_delay)

\* The delay of zero is a fixed point of the growth.
ZeroDelayStaysZero ==
    [][(RL_Failure /\ rate_limiter.current_delay = 0) =>
            rate_limiter'.current_delay = 0]_vars

----------------------------------------------------------------------------
(* SpecFastRun: a history of at most MaxUpdates failures and slow          *)
(* successes, followed by an endless, uninterrupted run of successful      *)
(* updates whose response time is below 0.5 s.                             *)

\* The slowest response time below 0.5 s (ms); a faster one lowers the mean.
FastTimes == {FAST_MS - 1}

NoFastSample(times) == \A i \in 1..Len(times) : times[i] >= FAST_MS

\* update(False, 0) or update(True, response_time >= 0.5), before the run
RL_Before ==
    /\ NoFastSample(rate_limiter.response_times)
    /\ RL_Failure \/ RL_Success
    /\ NoFastSample(rate_limiter'.response_times)

\* update(True, response_time) with response_time < 0.5
RL_Fast ==
    /\ op = "AdaptiveRateLimiter"
    /\ \E response_time \in FastTimes :
          rate_limiter' = Update(rate_limiter, TRUE, response_time)
    /\ UNCHANGED <<playlist_df, trackResp, pt_pc, pt_i, tracks_dfs, skipped_playlists,
                   total_tracks, tlog, pt_result, updates>>
    /\ UNCHANGED restPt

NextFastRun == RL_Before \/ RL_Fast

SpecFastRun == InitLimiter /\ [][NextFastRun]_vars /\ WF_vars(RL_Fast)

\* C23: from any reachable limiter state an uninterrupted run of successful
\* updates, each with a response time below 0.5 s, eventually reaches
\* current_delay = min_delay, and the delay stays there for as long as only
\* such updates follow.
C23_FastRunReachesMinDelay ==
    /\ <>[](rate_limiter.current_delay = rate_limiter.min_delay)
    /\ [][(RL_Fast /\ rate_limiter.current_delay = rate_limiter.min_delay) =>
            rate_limiter'.current_delay = rate_limiter.min_delay]_vars

\* C23: the window holds ten slow samples and the delay is at max_delay,
\* above min_delay, when the run of fast updates starts.
C23_Witness ==
    /\ op = "AdaptiveRateLimiter"
    /\ Len(rate_limiter.response_times) = WINDOW
    /\ NoFastSample(rate_limiter.response_times)
    /\ rate_limiter.current_delay = rate_limiter.max_delay
    /\ rate_limiter.min_delay < rate_limiter.max_delay
    /\ rate_limiter.error_count > 0

----------------------------------------------------------------------------
(* SpecPaginate: a page of the playlist listing whose fetch fails.         *)

\* The fetch that the remote fails has been issued.
FetchFailed == failAt # 0 /\ Fetches >= failAt

\* C24: when the fetch of a page of the playlist listing has failed,
\* get_playlists ends with the error and returns no table; a table it
\* returns is made of all the pages of the listing.
C24_FailedPageSurfaces ==
    op = "get_playlists" =>
        /\ FetchFailed =>
              pg_pc = "raised" /\ error = "FetchError" /\ pg_result = <<>>
        /\ pg_pc = "returned" =>
              ~FetchFailed /\ pg_result = ApplyFilters(Flatten(listing))

\* C24: the fetch of a later page has failed after playlists were collected.
C24_Witness ==
    /\ op = "get_playlists" /\ FetchFailed /\ failAt > 1
    /\ all_playlists # <<>>
    /\ pg_pc = "raised"

----------------------------------------------------------------------------
(* SpecFetch: pull_tracks over items of every shape, or                    *)
(* pull_artist_and_genre over artist records of every shape.               *)

InitFetch == InitTracks \/ InitArtists
NextFetch == NextTracks \/ NextArtists
SpecFetch == InitFetch /\ [][NextFetch]_vars

\* pull_tracks is at a step it can take, or has returned.
TracksCanStep ==
    \/ pt_pc \in {"call", "return", "returned"}
    \/ pt_pc = "loop" /\ pt_i <= Len(playlist_df)

\* The rows of playlist i are those of its items to which no rule applies.
OnlyMalformedItemsSkipped(i) ==
    RowsOf(pt_result, playlist_df[i].id) =
        [k \in 1..Len(Accepted(Answer(i).items)) |->
            TrackRow(Accepted(Answer(i).items)[k], playlist_df[i].id)]

\* The artists requested in an answered chunk, by the defect of their record.
AnsweredIds ==
    UNION {Range(Batch(unique_artist_ids, k)) :
              k \in {j \in 1..NBatches(unique_artist_ids) : ChunkAnswer(j) = "ok"}}
RecordOf(a) == SelectSeq(pa_result, LAMBDA r : r.artist_id = Val(a))

UnusableArtistSkipped ==
    /\ op = "pull_artist_and_genre" /\ pa_pc = "returned"
    /\ pa_result # <<>>
    /\ \E a \in AnsweredIds : DefectOf(a) \in {"null", "noid", "noname"}

\* pull_tracks has returned rows of a page that also held a malformed item.
MalformedItemSkipped ==
    /\ op = "pull_tracks" /\ pt_pc = "returned"
    /\ \E i \in 1..Len(playlist_df) :
          /\ Answer(i).kind = "page"
          /\ RowsOf(pt_result, playlist_df[i].id) # <<>>
          /\ \E k \in 1..Len(Answer(i).items) :
                LET it == Answer(i).items[k]
                IN RuleApplies(it) /\ (it.kind # "dict" \/ it.track.type # "episode")

----------------------------------------------------------------------------
(* SpecLogging: any sequence of at most MaxLogCalls calls of setup_logging *)
(* and get_logger, in any state of the directory "logs" and of the file    *)
(* logging.conf.                                                           *)

InitLogging ==
    /\ op = "logging_setup"
    /\ BsIdle
    /\ LgStart
    /\ log_dir \in {"missing", "exists", "blocked"}
    /\ conf_ok \in BOOLEAN
    /\ PgIdle
    /\ PtIdle
    /\ PaIdle
    /\ PlIdle
    /\ SyIdle
    /\ MuIdle
    /\ CaIdle

NextLogging == LG_Setup \/ LG_GetLogger \/ LG_DirFreed

SpecLogging == InitLogging /\ [][NextLogging]_vars

\* The configuration in force and the flag.
LoggingState == <<log_config, logging_initialized>>

\* C26: over any sequence of setup_logging() and get_logger() calls the
\* configuration step (the file, or the basic configuration when the file
\* fails to load) is executed exactly once, on the first call; every later
\* call leaves the logging state unchanged, and the flag never returns to
\* false.
C26_ConfiguredOnceOnFirstCall ==
    /\ [](lg_calls >= 1 => (config_log = <<1>> /\ logging_initialized))
    /\ [][lg_calls >= 1 => UNCHANGED LoggingState]_vars
    /\ [][logging_initialized => logging_initialized']_vars

\* What does hold: the configuration step is executed at most once, by the
\* call that sets the flag; once the flag is set no call changes the logging
\* state, the flag stays set, and the configuration is the file's when it
\* loads and the basic one otherwise.
ConfiguredAtMostOnce ==
    /\ [](Len(config_log) <= 1)
    /\ [](logging_initialized <=> Len(config_log) = 1)
    /\ [](logging_initialized =>
             log_config = IF conf_ok THEN "file" ELSE "basic")
    /\ [](~logging_initialized => log_config = "none")
    /\ [][logging_initialized => UNCHANGED LoggingState]_vars

\* What does hold: when "logs" exists or can be created at the first call,
\* that call runs the configuration step and no other call does.
ConfiguredOnFirstCallIfDirUsable ==
    \/ log_dir = "blocked"
    \/ [](lg_calls >= 1 => (config_log = <<1>> /\ logging_initialized))

\* The first call raised, and a later call ran the configuration step.
ConfiguredByALaterCall ==
    lg_calls >= 2 /\ Len(config_log) = 1 /\ config_log[1] > 1

----------------------------------------------------------------------------
(* SpecPool: pull_artist_and_genre over enough artists for more batches    *)
(* than the pool may have workers; every request raises, so that the       *)
(* batches differ by their progress only.                                  *)

MaxPoolArtists == 501

PoolCounts == {1, BATCH_SIZE + 1, MaxPoolArtists}

\* A track table of m rows, one artist each; the function reads no other
\* column than artist_id (line 379).
PoolTracks(m) == [j \in 1..m |-> [artist_id |-> Val(j)]]

InitPool ==
    /\ op = "pull_artist_and_genre"
    /\ \E m \in PoolCounts :
          /\ tracks_arg = PoolTracks(m)
          /\ chunkResp = [k \in 1..CeilDiv(m, BATCH_SIZE) |-> "raise"]
    /\ artistDefect = <<>>
    /\ PaStart
    /\ PgIdle
    /\ PtIdle
    /\ PlIdle
    /\ SyIdle
    /\ MuIdle
    /\ CaIdle
    /\ LgIdle
    /\ BsIdle

SpecPool == InitPool /\ [][NextArtists]_vars

\* The ThreadPoolExecutor of line 397 exists.
PoolCreated ==
    op = "pull_artist_and_genre" /\ pa_pc \in {"submit", "collect"}
InFlight == Cardinality(InState("running"))

\* C27: the pool of pull_artist_and_genre is created with min(10, ceil(M/50))
\* workers for M unique artist ids, at least one, and keeps that size; at
\* every moment at most that many get-artists requests are in flight, hence
\* never more than 10.
C27_InFlightWithinPoolSize ==
    /\ []((PoolCreated /\ futures = <<>>) =>
             /\ max_workers = Min(10, (Cardinality(InputIds) + 49) \div 50)
             /\ max_workers >= 1)
    /\ [][PoolCreated => max_workers' = max_workers]_vars
    /\ [](op = "pull_artist_and_genre" =>
             InFlight <= max_workers /\ InFlight <= 10)

\* C27: ten requests are in flight and an eleventh batch waits for a worker.
C27_Witness ==
    /\ PoolCreated
    /\ InFlight = 10 /\ max_workers = 10
    /\ InState("queued") # {}

----------------------------------------------------------------------------
(* SpecArtists: the place of every chunk's records in the gathered list.   *)

\* The chunks whose results the main thread has taken, and were answered.
Gathered(k) ==
    /\ k \in 1..Len(futures)
    /\ futures[k].st = "consumed"
    /\ ChunkAnswer(k) = "ok"
\* The records of chunk k stand in `data` from position o + 1 on, in the
\* order of the answer.
StandsAt(data, k, o) ==
    /\ o + Len(RecordsOfChunk(k)) <= Len(data)
    /\ SubSeq(data, o + 1, o + Len(RecordsOfChunk(k))) = RecordsOfChunk(k)
TimesIn(data, r) == Cardinality({j \in 1..Len(data) : data[j] = r})
ChunksInPlace(data) ==
    /\ \A k \in 1..Len(futures) :
          IF Gathered(k)
          THEN /\ \E o \in 0..Len(data) : StandsAt(data, k, o)
               /\ \A r \in Range(RecordsOfChunk(k)) : TimesIn(data, r) = 1
          ELSE \A j \in 1..Len(data) :
                  data[j].artist_id.v \notin Range(Batch(unique_artist_ids, k))
    /\ Len(data) =
          SumSeq([k \in 1..Len(futures) |->
                     IF Gathered(k) THEN Len(RecordsOfChunk(k)) ELSE 0])

\* C28: in whatever order the chunks complete, the gathered artist list holds
\* every record of every answered chunk taken so far exactly once, the
\* records of one chunk side by side and in the order of that chunk's answer,
\* and nothing else; so does the returned table for all answered chunks.
C28_ChunksStayWhole ==
    op = "pull_artist_and_genre" =>
        /\ ChunksInPlace(processed_artists_data)
        /\ pa_pc = "returned" => pa_result = processed_artists_data

\* C28: the table was returned with the records of a later chunk standing
\* before those of an earlier one, both chunks of several records.
C28_Witness ==
    /\ op = "pull_artist_and_genre" /\ pa_pc = "returned"
    /\ \E k1, k2 \in 1..Len(futures) : \E o1, o2 \in 0..Len(pa_result) :
          /\ k1 < k2 /\ o2 < o1
          /\ Gathered(k1) /\ Gathered(k2)
          /\ Len(RecordsOfChunk(k1)) > 1 /\ Len(RecordsOfChunk(k2)) > 1
          /\ StandsAt(pa_result, k1, o1) /\ StandsAt(pa_result, k2, o2)

----------------------------------------------------------------------------
(* SpecWindow: the limiter of pull_tracks (line 207) on its own, every     *)
(* update call being written down in tlog.                                 *)

MaxWindowUpdates == 12

\* The update calls: a success with its response time, or update(False, 0).
UpdateCalls ==
    {[success |-> TRUE, response_time |-> t] : t \in ResponseTimes}
        \cup {[success |-> FALSE, response_time |-> 0]}

\* update(success, response_time)
RL_Update ==
    /\ op = "AdaptiveRateLimiter" /\ updates < MaxWindowUpdates
    /\ \E call \in UpdateCalls :
          /\ rate_limiter' = Update(rate_limiter, call.success, call.response_time)
          /\ tlog' = Append(tlog, call)
    /\ updates' = updates + 1
    /\ UNCHANGED <<playlist_df, trackResp, pt_pc, pt_i, tracks_dfs, skipped_playlists,
                   total_tracks, pt_result>>
    /\ UNCHANGED restPt

InitWindow ==
    /\ InitLimiter
    /\ rate_limiter = AdaptiveRateLimiter(INITIAL_DELAY, MIN_DELAY, MAX_DELAY)

SpecWindow == InitWindow /\ [][RL_Update]_vars

\* The response times of the successful calls of a log, in order.
SuccessLatencies(log) ==
    LET ok == SelectSeq(log, LAMBDA call : call.success)
    IN [j \in 1..Len(ok) |-> ok[j].response_time]
\* The last n elements of s, or all of s when it has fewer.
LastUpTo(s, n) == SubSeq(s, Max(1, Len(s) - n + 1), Len(s))

\* C29: after any sequence of update calls the window holds at most 10
\* entries, which are the response times of the most recent (up to 10)
\* successful updates in their order of arrival; a failure, which adds no
\* successful update, leaves the window as it was.
C29_WindowIsLastTenSuccesses ==
    op = "AdaptiveRateLimiter" =>
        /\ Len(rate_limiter.response_times) <= 10
        /\ rate_limiter.response_times = LastUpTo(SuccessLatencies(tlog), 10)
        /\ (tlog # <<>> /\ ~tlog[Len(tlog)].success) =>
              rate_limiter.response_times =
                  LastUpTo(SuccessLatencies(SubSeq(tlog, 1, Len(tlog) - 1)), 10)

\* C29: more than 10 successes were recorded, slow and fast ones, and the
\* last update was a failure.
C29_Witness ==
    /\ op = "AdaptiveRateLimiter"
    /\ Len(SuccessLatencies(tlog)) > WINDOW
    /\ ~tlog[Len(tlog)].success
    /\ \E i, j \in 1..Len(rate_limiter.response_times) :
          rate_limiter.response_times[i] # rate_limiter.response_times[j]
    /\ SuccessLatencies(tlog)[1] # SuccessLatencies(tlog)[WINDOW + 1]

----------------------------------------------------------------------------
(* SpecLimiter: what a successful update does to the delay.                *)

\* C30: a successful update changes current_delay only when the window, after
\* the push, has at least 5 samples whose mean is below 0.5 s; the delay then
\* becomes max(min_delay, 0.9 x the previous delay), and is left unchanged
\* otherwise.
C30_SuccessDecaysOnlyWhenFast ==
    [][RL_Success =>
          LET window == rate_limiter'.response_times
              previous == rate_limiter.current_delay
          IN IF Len(window) >= 5 /\ SumSeq(window) < 500 * Len(window)
             THEN rate_limiter'.current_delay =
                      Max(rate_limiter.min_delay, (previous * 9) \div 10)
             ELSE rate_limiter'.current_delay = previous]_vars

\* C30: a window of at least 5 samples, a slow one among them, had a mean
\* below 0.5 s, and the successful update lowered the delay, not yet to
\* min_delay.
C30_Witness ==
    /\ op = "AdaptiveRateLimiter" /\ updates > 0
    /\ rate_limiter.error_count = 0
    /\ Len(rate_limiter.response_times) >= MIN_SAMPLES
    /\ \E i \in 1..Len(rate_limiter.response_times) :
          rate_limiter.response_times[i] >= FAST_MS
    /\ SumSeq(rate_limiter.response_times) < FAST_MS * Len(rate_limiter.response_times)
    /\ rate_limiter.min_delay < rate_limiter.current_delay
    /\ rate_limiter.current_delay < INITIAL_DELAY
    /\ rate_limiter.max_delay = MAX_DELAY

\* A successful update left the delay alone: the window is too short or slow.
SuccessLeftDelayAlone ==
    /\ op = "AdaptiveRateLimiter" /\ updates > 0
    /\ rate_limiter.error_count = 0
    /\ rate_limiter.current_delay = INITIAL_DELAY
    /\ Len(rate_limiter.response_times) >= MIN_SAMPLES
    /\ SumSeq(rate_limiter.response_times) >= FAST_MS * Len(rate_limiter.response_times)

----------------------------------------------------------------------------
(* SpecWindow: the error counter against the written-down update calls.    *)

\* The number of failures at the end of a log, after its last success.
TrailingFailures(log) ==
    LET successes == {i \in 1..Len(log) : log[i].success}
    IN Len(log) - (IF successes = {} THEN 0
                   ELSE CHOOSE i \in successes : \A j \in successes : j <= i)

\* C31: after any sequence of update calls error_count is the number of
\* failure updates since the most recent success update, or since the
\* construction when there was no success; every success leaves it at 0 and
\* every failure raises it by exactly 1.
C31_ErrorCountIsTrailingFailures ==
    /\ [](op = "AdaptiveRateLimiter" =>
             rate_limiter.error_count = TrailingFailures(tlog))
    /\ [][RL_Update =>
             IF tlog'[Len(tlog')].success
             THEN rate_limiter'.error_count = 0
             ELSE rate_limiter'.error_count = rate_limiter.error_count + 1]_vars

\* C31: failures, then a success, then several failures again: the counter
\* stands at the later failures only.
C31_Witness ==
    /\ op = "AdaptiveRateLimiter"
    /\ \E i \in 2..Len(tlog) :
          /\ tlog[i].success /\ ~tlog[i - 1].success
          /\ Len(tlog) - i >= 2
          /\ \A j \in (i + 1)..Len(tlog) : ~tlog[j].success
    /\ rate_limiter.error_count >= 2
    /\ rate_limiter.error_count < Len(tlog) - Len(SuccessLatencies(tlog))

----------------------------------------------------------------------------
(* SpecPaginate: the pacing of the page fetches.                           *)

\* Two page fetches follow each other in the log with no sleep in between.
UnpacedAt(i) == i < Len(plog) /\ plog[i] = "fetch" /\ plog[i + 1] = "fetch"

\* C32: in the page-following loops of get_playlists and get_liked_songs a
\* pacing delay lies between every two consecutive page fetches of the
\* listing, the fetch of the first page and that of the second included.
C32_DelayBetweenPageFetches ==
    (GPActive \/ LSActive) => \A i \in 1..Len(plog) : ~UnpacedAt(i)

\* What holds instead: from the second fetch on every fetch is followed by a
\* sleep before the next one; only the first two follow each other directly.
PacedFromSecondFetch ==
    (GPActive \/ LSActive) => \A i \in 1..Len(plog) : UnpacedAt(i) => i = 1

\* Three pages were fetched: the second right after the first, the third
\* after a sleep.
SecondFetchUnpaced ==
    /\ GPActive \/ LSActive
    /\ Len(plog) >= 4
    /\ SubSeq(plog, 1, 4) = <<"fetch", "fetch", "sleep", "fetch">>

----------------------------------------------------------------------------
(* SpecTracks: the pacing of the playlist_tracks calls.                    *)

\* The fetches and delays of pull_tracks, in order, the updates left out.
Pacing == SelectSeq(tlog, LAMBDA x : x.e \in {"fetch", "delay"})

\* C33: in pull_tracks the limiter's delay is applied between every two
\* consecutive playlist_tracks calls whatever the outcome of the earlier one:
\* also when it failed and when its playlist was skipped for having no track
\* data or no valid tracks.
C33_DelayBetweenPlaylistFetches ==
    op = "pull_tracks" =>
        \A k \in 1..(Len(Pacing) - 1) :
            ~(Pacing[k].e = "fetch" /\ Pacing[k + 1].e = "fetch")

\* What holds instead: the delay follows the fetch of a playlist exactly when
\* the playlist's table was kept (line 286); a failed or skipped playlist is
\* followed by the next fetch at once.
DelayOnlyAfterKeptPlaylist ==
    op = "pull_tracks" =>
        \A k \in 1..Len(Pacing) :
            Pacing[k].e = "fetch" =>
                LET p == Pacing[k].p
                    kept == \E d \in 1..Len(tracks_dfs) :
                                tracks_dfs[d][1].playlist_id = p
                    delayed == k < Len(Pacing) /\ Pacing[k + 1].e = "delay"
                                   /\ Pacing[k + 1].p = p
                IN (\E i \in 1..Len(playlist_df) : Done(i) /\ playlist_df[i].id = p)
                       => (delayed <=> kept)

\* A failed fetch and the fetch of a skipped playlist were each followed by
\* the next fetch with no delay; a kept playlist was followed by its delay.
FailedAndSkippedUnpaced ==
    /\ op = "pull_tracks" /\ pt_pc = "returned"
    /\ Len(playlist_df) = 3
    /\ Answer(1) = Raise /\ Answer(2) = NoData /\ Answer(3).kind = "page"
    /\ Len(Pacing) = 4
    /\ Pacing[1].e = "fetch" /\ Pacing[2].e = "fetch" /\ Pacing[3].e = "fetch"
    /\ Pacing[4].e = "delay"

----------------------------------------------------------------------------
(* SpecTracks: what pull_tracks writes down about the items it rejects.    *)
(* The function keeps two records of its work: total_tracks, the number of *)
(* rows kept, and skipped_playlists, one (name, id, reason) entry per      *)
(* skipped playlist, which lines 299-302 log.  The tests of lines 231-252  *)
(* leave the item with a bare `continue`.                                  *)

\* The items of playlist i that the normalizer rejected.
RejectedItems(i) ==
    IF Answer(i).kind = "page"
    THEN SelectSeq(Answer(i).items, LAMBDA it : ~ValidTrack(it))
    ELSE <<>>
\* The entries pull_tracks wrote down for playlist i.
SkipEntries(i) ==
    SelectSeq(skipped_playlists, LAMBDA k : k.id = playlist_df[i].id)

\* C34: for every playlist item the normalizer rejects, pull_tracks counts
\* the rejection and logs it with its reason: the entries written down for a
\* playlist are as many as its rejected items.
C34_RejectionsCountedAndLogged ==
    op = "pull_tracks" =>
        \A i \in 1..Len(playlist_df) :
            Done(i) => Len(SkipEntries(i)) = Len(RejectedItems(i))

\* What holds instead: a playlist that was fetched has an entry only when no
\* item of it was kept, one entry whatever the number of rejected items, with
\* the reason "No valid music tracks" whatever the test that rejected them.
RejectionsLeaveNoRecord ==
    op = "pull_tracks" =>
        \A i \in 1..Len(playlist_df) :
            (Done(i) /\ Answer(i).kind = "page") =>
                /\ ValidOf(i) # <<>> => SkipEntries(i) = <<>>
                /\ ValidOf(i) = <<>> =>
                      SkipEntries(i) = <<Skip(playlist_df[i], "No valid music tracks")>>
                /\ total_tracks >= Len(ValidOf(i))

\* A page of a valid item and a rejected one was dealt with and nothing was
\* written down about the rejected item.
RejectedItemUnrecorded ==
    /\ op = "pull_tracks" /\ pt_pc = "returned"
    /\ \E i \in 1..Len(playlist_df) :
          /\ Len(RejectedItems(i)) = 1 /\ Len(ValidOf(i)) = 1
          /\ SkipEntries(i) = <<>>
    /\ skipped_playlists = <<>>

----------------------------------------------------------------------------
(* SpecSync: a sync called without what it needs to create a destination.  *)

\* No destination id, and no user id or no destination name.
CannotCreate == dest.id = 0 /\ (dest.user_id = 0 \/ dest.name = 0)
\* The source playlist and the liked songs were read and some song is liked.
ReadsSucceeded == ~source.fails /\ failAt \notin 1..Len(listing) /\ Total > 0

\* C35: called without a destination id and without a user id or without a
\* destination name, the sync raises ValueError, and no create-playlist or
\* add-items call has been issued by then.
C35_MissingArgumentsRaiseValueError ==
    (SyFinished /\ CannotCreate) =>
        /\ sy_pc = "raised" /\ sy_error = "ValueError"
        /\ mutations = <<>>

\* What holds instead: such a sync issues no mutating call and always raises,
\* ValueError exactly when both reads succeeded and some song is liked; the
\* arguments are looked at after the reads only (line 601).
MissingArgumentsRaiseAfterReads ==
    (op = "sync_playlist_with_liked_songs" /\ CannotCreate) =>
        /\ mutations = <<>>
        /\ sy_pc # "returned"
        /\ SyFinished => (sy_error = "ValueError" <=> ReadsSucceeded)

\* The user likes no song: the sync without user id ended with KeyError.
MissingArgumentsKeyError ==
    /\ SyFinished /\ CannotCreate
    /\ ~source.fails /\ Total = 0
    /\ sy_error = "KeyError"

\* Both reads succeeded: the sync without user id ended with ValueError.
MissingArgumentsValueError ==
    /\ SyFinished /\ CannotCreate /\ ReadsSucceeded
    /\ source.ids # <<>>
    /\ sy_error = "ValueError" /\ mutations = <<>>

----------------------------------------------------------------------------
(* SpecResync: sync_playlist_with_liked_songs called, and called again     *)
(* once it has returned, for a source playlist that may list a track more  *)
(* than once.                                                              *)

MaxResyncTracks == 101

\* The source playlists: without tracks, of distinct tracks, and listing
\* track 1 twice (next to each other, apart, and over a hundred ids apart).
ResyncSources ==
    {<<>>, Ids(2), <<Val(1), Val(1)>>, <<Val(1), Val(2), Val(1)>>,
     Ids(MaxResyncTracks), Ids(MaxResyncTracks - 1) \o <<Val(1)>>}

InitResync ==
    /\ op = "sync_playlist_with_liked_songs"
    /\ \E ids \in ResyncSources : source = [fails |-> FALSE, ids |-> ids]
    /\ listing \in {LikedPages(MaxResyncTracks), LikedPages(1), LikedPages(0)}
    /\ failAt \in {0, 2}
    /\ dest \in Destinations
    /\ dest_tracks \in IF dest.id = 0 THEN {<<>>} ELSE {<<>>, Ids(2), <<Val(2)>>}
    /\ addFailAt \in 0..MaxAddCalls
    /\ sy_pc = "call"
    /\ SyStart
    /\ user_filter = "" /\ collaborative_filter = "None" /\ name_prefix = <<>>
    /\ pg_pc = "idle" /\ page = 0
    /\ all_playlists = <<>> /\ all_tracks = <<>> /\ processed = 0
    /\ plog = <<>> /\ pg_result = <<>> /\ error = ""
    /\ PtIdle
    /\ PaIdle
    /\ PlIdle
    /\ MuIdle
    /\ CaIdle
    /\ LgIdle
    /\ BsIdle

NextResync == NextSync \/ SY_Again

SpecResync == InitResync /\ [][NextResync]_vars

\* The ids passed to the add-calls of the run under way, in order.
AddedInOrder == Flatten([c \in 1..Len(AddCalls) |-> AddCalls[c].ids])
Distinct(s) == \A i, j \in 1..Len(s) : i # j => s[i] # s[j]

\* C36: within one run of the sync no track id is passed to add-calls more
\* than once, even when the source playlist lists a track several times.
C36_NoIdAddedTwice ==
    op = "sync_playlist_with_liked_songs" => Distinct(AddedInOrder)

\* What holds instead: the ids passed to add-calls are the source's liked
\* tracks that the destination did not hold, as often as the source lists
\* them; they are distinct when the source's are.
AddedAsOftenAsListed ==
    op = "sync_playlist_with_liked_songs" =>
        /\ IsPrefix(AddedInOrder, tracks_to_add)
        /\ sy_pc \in {"add", "returned"} =>
              tracks_to_add =
                  SelectSeq(source.ids,
                            LAMBDA t : /\ t \in RemoteLikedIds
                                       /\ dest.id # 0 => ~In(t, dest_at_call))
        /\ Distinct(source.ids) => Distinct(AddedInOrder)

\* A returned sync passed a track to two different add-calls.
SameIdInTwoAddCalls ==
    /\ op = "sync_playlist_with_liked_songs" /\ sy_pc = "returned"
    /\ Len(AddCalls) = 2
    /\ \E t \in Range(AddCalls[1].ids) : t \in Range(AddCalls[2].ids)

\* A returned sync passed a track twice in one add-call.
SameIdTwiceInOneAddCall ==
    /\ op = "sync_playlist_with_liked_songs" /\ sy_pc = "returned"
    /\ Len(AddCalls) = 1 /\ ~Distinct(AddCalls[1].ids)

\* C37: a sync run again after a sync that returned, with the same source,
\* the same liked songs and the destination id the first run returned, issues
\* no add-call and leaves the destination playlist as it found it.
C37_SecondSyncAddsNothing ==
    (op = "sync_playlist_with_liked_songs" /\ sy_run = 2) =>
        /\ AddCalls = <<>>
        /\ sy_pc # "call" => dest_tracks = dest_at_call
        /\ SyFinished => (sy_pc = "returned" /\ sy_result = dest.id)

\* C37: the first run created the destination and filled it with two
\* add-calls' worth of tracks, one of them listed twice; the second run has
\* returned the same id.
C37_Witness ==
    /\ op = "sync_playlist_with_liked_songs" /\ sy_run = 2 /\ sy_pc = "returned"
    /\ sy_result = CREATED_ID
    /\ Len(dest_tracks) > ADD_BATCH /\ ~Distinct(dest_tracks)
    /\ mutations = <<>>

\* The second run was given an existing destination that held some of the
\* liked source tracks before the first run added the others.
SecondSyncOfExistingDestination ==
    /\ op = "sync_playlist_with_liked_songs" /\ sy_run = 2 /\ sy_pc = "returned"
    /\ sy_result # CREATED_ID
    /\ Len(dest_at_call) > 2 /\ SubSeq(dest_at_call, 1, 2) = Ids(2)

----------------------------------------------------------------------------
(* SpecLibrary: the table of process_library_data before                   *)
(* validate_dataframe, as the Backlog Sampler hands it over (lines 52-59). *)

\* The page has loaded a table in which some track's artist has genres.
LoadedWithGenreData ==
    /\ op = "process_library_data" /\ bs_pc \notin {"idle", "load"}
    /\ \E i \in 1..Len(df) : df[i].genres.st = "list" /\ df[i].genres.v # <<>>

\* C38: whenever the library yields a valid track whose artist has genre
\* data, the table process_library_data returns has the columns track_id,
\* track_name, artist_name and genres, validation returns no error, and the
\* Backlog Sampler goes on to the selection of a genre.
C38_LibraryTablePassesValidation ==
    LoadedWithGenreData =>
        /\ RequiredColumns \subseteq ColumnsOf(df)
        /\ error_msg = NoError
        /\ bs_pc = "genres"

\* What holds instead: every table process_library_data returns lacks the
\* column artist_name, which the merge of line 524 has turned into
\* artist_name_x and artist_name_y; validation reports it and the page stops.
LibraryTableLacksArtistName ==
    (op = "process_library_data" /\ bs_pc \notin {"idle", "load"}
        /\ bs_error = "") =>
        /\ ColumnsOf(df) \cap {"artist_name", "artist_name_x", "artist_name_y"}
               = {"artist_name_x", "artist_name_y"}
        /\ error_msg = [error |-> "Missing required columns",
                        columns |-> {"artist_name"}]
        /\ bs_pc = "stopped"

\* A table with the tracks of artists with genres was loaded and the page
\* stopped on the validation error.
StoppedOnMissingArtistName ==
    /\ LoadedWithGenreData
    /\ Len(df) > 1
    /\ error_msg.columns = {"artist_name"}
    /\ bs_pc = "stopped"

----------------------------------------------------------------------------
(* SpecSampler: the page script of the Backlog Sampler from the loaded     *)
(* table on.  process_library_data is taken to have returned a table of at *)
(* most MaxSamplerRows rows that has a column artist_name next to the      *)
(* other columns of the merge, the only kind of table that gets past       *)
(* validate_dataframe.                                                     *)

MaxSamplerRows == 3

Rock == <<"r", "o", "c", "k">>
HardRock == <<"h", "a", "r", "d", " ", "r", "o", "c", "k">>
Jazz == <<"j", "a", "z", "z">>

SamplerRow(t, a, p, genres) ==
    [artist_name |-> Val(a), artist_id |-> Val(a), track_name |-> Val(t),
     track_id |-> Val(t), playlist_id |-> p, genres |-> genres]

\* Track 1 is in two playlists; artist 4 has no genre; no artist record was
\* obtained for track 5.
SamplerRows ==
    {SamplerRow(1, 1, 1, ListGenres(<<Rock>>)), SamplerRow(1, 1, 2, ListGenres(<<Rock>>)),
     SamplerRow(2, 2, 1, ListGenres(<<HardRock>>)),
     SamplerRow(3, 3, 1, ListGenres(<<Jazz, Rock>>)),
     SamplerRow(4, 4, 1, ListGenres(<<>>)), SamplerRow(5, 5, 1, NullGenres)}

InitSampler ==
    /\ op = "Backlog_Sampler"
    /\ pl_pc = "returned" /\ combined_df \in SeqsUpTo(SamplerRows, MaxSamplerRows)
    /\ tracks_df = <<>> /\ run = 1
    /\ first_call = [outcome |-> "", error |-> "", rows |-> <<>>, artists |-> <<>>]
    /\ BsStart
    /\ PgIdle
    /\ PtIdle
    /\ PaIdle
    /\ SyIdle
    /\ MuIdle
    /\ CaIdle
    /\ LgIdle

NextSampler == BS_Load \/ BS_Genres \/ BS_Select \/ BS_Filter \/ BS_Size \/ BS_Sample

SpecSampler == InitSampler /\ [][NextSampler]_vars

Offering == op = "Backlog_Sampler" /\ bs_pc \in {"size", "sample", "preview"}
HasGenre(row, genre) == row.genres.st = "list" /\ genre \in Range(row.genres.v)

OfferedTracksContainTheText ==
    /\ Offering =>
          /\ \A i \in 1..Len(unique_tracks) :
                Contains(FlattenGenres(unique_tracks[i].genres.v), selected_genre)
          /\ \A i, j \in 1..Len(unique_tracks) :
                i # j => unique_tracks[i].track_id # unique_tracks[j].track_id
          /\ \A k \in 1..Len(df) :
                HasGenre(df[k], selected_genre) =>
                    \E i \in 1..Len(unique_tracks) :
                        unique_tracks[i].track_id = df[k].track_id
    /\ (op = "Backlog_Sampler" /\ bs_pc = "preview") =>
          /\ Len(display_df) = Min(selected_sample_size, Len(unique_tracks))
          /\ Range(display_df) \subseteq Range(unique_tracks)
          /\ \A i, j \in 1..Len(display_df) :
                i # j => display_df[i].track_id # display_df[j].track_id

\* Under "rock" a track whose artist has the one genre "hard rock" was offered
\* and drawn, in a sample of two out of three tracks on offer.
OfferedWithoutTheGenre ==
    /\ op = "Backlog_Sampler" /\ bs_pc = "preview"
    /\ selected_genre = Rock
    /\ Len(unique_tracks) = 3 /\ Len(display_df) = 2
    /\ \E i \in 1..Len(display_df) : display_df[i].genres = ListGenres(<<HardRock>>)

\* A row without genres (no artist record) ended the script at line 67.
NullGenresEndTheScript ==
    /\ op = "Backlog_Sampler" /\ bs_pc = "failed" /\ bs_error = "TypeError"
    /\ error_msg = NoError

====
